---- MODULE Spec2Model ----
(***************************************************************************)
(* Model of the SJPROMOS posting bot: the scoring and anti-repetition      *)
(* engine (product_ai.py) and the hourly planning / dispatch scheduler     *)
(* (scheduler.py, telegram_bot.py).                                        *)
(*                                                                         *)
(* Numbers.  Time is in whole seconds.  Scores are fixed-point integers in *)
(* thousandths of a point (ScoreScale); ratings are in tenths of a star;   *)
(* discount and commission are whole percent.                              *)
(***************************************************************************)
EXTENDS Integers, Sequences, FiniteSets, TLC

VARIABLES
    now,                 \* wall clock, seconds since midnight of day 0
    posted_products,     \* table posted_products: id -> row or NoRow
    product_history,     \* table product_history: append-only sequence
    trending_products,   \* table trending_products: id -> row or NoRow
    is_active,           \* TelegramBot.is_active (the pause flag)
    POST_MIN_PER_HOUR,   \* config.POST_MIN_PER_HOUR
    POST_MAX_PER_HOUR,   \* config.POST_MAX_PER_HOUR
    hourly_target,       \* PostingScheduler.hourly_target
    current_hour_posts,  \* PostingScheduler.current_hour_posts
    posted_this_hour,    \* PostingScheduler.posted_this_hour (a list)
    jobs,                \* APScheduler job store: recurring and post_ jobs
    passes,              \* _hourly_planning coroutines in flight
    handlers,            \* _execute_post coroutines awaiting the publish
    events,              \* what the outside has seen, in order: resets of
                         \* the fired-set, publish calls on the channel,
                         \* returns of emergency_stop
    obs,                 \* observation of the last completed operation
    steps                \* number of operations performed so far

vars == <<now, posted_products, product_history, trending_products, is_active,
          POST_MIN_PER_HOUR, POST_MAX_PER_HOUR, hourly_target,
          current_hour_posts, posted_this_hour, jobs, passes, handlers,
          events, obs, steps>>

storeVars == <<posted_products, product_history, trending_products>>
schedVars == <<is_active, POST_MIN_PER_HOUR, POST_MAX_PER_HOUR, hourly_target,
               current_hour_posts, posted_this_hour, jobs, passes, handlers,
               events>>

----------------------------------------------------------------------------
(* Units and program constants *)

ScoreScale == 10 * 100
Hour == 60 * 60
Day == 24 * Hour

MinI(a, b) == IF a <= b THEN a ELSE b
MaxI(a, b) == IF a >= b THEN a ELSE b

Pts(n) == n * ScoreScale

\* the weights of discount and rating exchanged
weights_exchanged ==
    [discount |-> 20, rating |-> 25, volume |-> 15, commission |-> 15,
     trending |-> 10, historical |-> 10, freshness |-> 5]

\* ProductAI.weights, in hundredths
weights == [discount |-> 25, rating |-> 20, volume |-> 15, commission |-> 15,
            trending |-> 10, historical |-> 10, freshness |-> 5]

\* the result of a Python expression: a value, or an exception raised
Ok(v) == [ok |-> TRUE, val |-> v]
Raised == [ok |-> FALSE, val |-> 0]

----------------------------------------------------------------------------
(* Candidate fields.  A field of the product dict is absent ("missing"),   *)
(* a number ("num"), a numeric string ("numstr") or a value that is not a  *)
(* number at all, such as None or "abc" ("bad").                           *)

Field(k, v) == [kind |-> k, val |-> v]
Num(v) == Field("num", v)
Missing == Field("missing", 0)

\* float(product.get(key, 0)) and int(product.get(key, 0))
to_number(f) ==
    CASE f.kind = "missing" -> Ok(0)
      [] f.kind = "num"     -> Ok(f.val)
      [] f.kind = "numstr"  -> Ok(f.val)
      [] OTHER              -> Raised

\* product.get(key, 0) used in a comparison with a number, unconverted
raw_number(f) ==
    CASE f.kind = "missing" -> Ok(0)
      [] f.kind = "num"     -> Ok(f.val)
      [] OTHER              -> Raised

----------------------------------------------------------------------------
(* Store rows.  A missing row is a row with exists = FALSE, so that every  *)
(* table cell has one shape.  NULL timestamps are -1.                      *)

Null == 0 - 1

NoRow == [exists |-> FALSE, posted_at |-> 0, clicks |-> 0,
          conversion_score |-> 0, engagement_score |-> 0,
          last_click_at |-> Null, category |-> "", discount |-> Missing,
          rating |-> Missing, volume |-> Missing]

NoTrend == [exists |-> FALSE, trend_score |-> 0, click_velocity |-> 0,
            last_seen |-> Null]

Store(p, h, t) == [posted |-> p, history |-> h, trending |-> t]

\* SQL "timestamp > datetime('now', '-N ...')".  The column holds Python's
\* datetime.now().isoformat() ("YYYY-MM-DDTHH:MM:SS"), SQLite's datetime()
\* yields "YYYY-MM-DD HH:MM:SS"; the two are compared as strings, and "T"
\* sorts after " ": the comparison is decided by the calendar dates alone.
sql_after(ts, cutoff) == (ts \div Day) >= (cutoff \div Day)

\* number of rows of product_history for id with this action after cutoff
count_history(h, id, action, cutoff) ==
    Cardinality({ i \in 1..Len(h) : /\ h[i].product_id = id
                                    /\ h[i].action = action
                                    /\ sql_after(h[i].timestamp, cutoff) })

----------------------------------------------------------------------------
(* ScoringEngine: the seven sub-scores.  Each returns Ok(score) with the   *)
(* score in thousandths of a point, or Raised.                             *)

\* the tiers of _calculate_discount_score with > for >=
calculate_discount_score_strict(product) ==
    LET d == raw_number(product.calculated_discount) IN
    IF ~d.ok THEN Raised
    ELSE Ok(Pts(CASE d.val > 70 -> 100
                  [] d.val > 50 -> 80
                  [] d.val > 30 -> 60
                  [] d.val > 20 -> 40
                  [] d.val > 10 -> 20
                  [] OTHER -> 0))

calculate_discount_score(product) ==
    LET d == raw_number(product.calculated_discount) IN
    IF ~d.ok THEN Raised
    ELSE Ok(Pts(CASE d.val >= 70 -> 100
                  [] d.val >= 50 -> 80
                  [] d.val >= 30 -> 60
                  [] d.val >= 20 -> 40
                  [] d.val >= 10 -> 20
                  [] OTHER -> 0))

calculate_rating_score(product) ==
    LET r == to_number(product.rating)
        c == to_number(product.review_count)
        base_score == CASE r.val >= 48 -> 100
                        [] r.val >= 45 -> 80
                        [] r.val >= 40 -> 60
                        [] r.val >= 35 -> 40
                        [] r.val >= 30 -> 20
                        [] OTHER -> 0
        boost == CASE c.val >= 1000 -> 20
                   [] c.val >= 500 -> 15
                   [] c.val >= 100 -> 10
                   [] c.val >= 50 -> 5
                   [] OTHER -> 0
    IN  IF ~r.ok \/ ~c.ok THEN Raised
        ELSE Ok(Pts(MinI(base_score + boost, 100)))

calculate_volume_score(product) ==
    LET v == to_number(product.volume) IN
    IF ~v.ok THEN Raised
    ELSE Ok(Pts(CASE v.val >= 10000 -> 100
                  [] v.val >= 5000 -> 80
                  [] v.val >= 1000 -> 60
                  [] v.val >= 500 -> 40
                  [] v.val >= 100 -> 20
                  [] OTHER -> 0))

calculate_commission_score(product) ==
    LET c == to_number(product.commission_rate) IN
    IF ~c.ok THEN Raised
    ELSE Ok(Pts(CASE c.val >= 10 -> 100
                  [] c.val >= 8 -> 80
                  [] c.val >= 6 -> 60
                  [] c.val >= 4 -> 40
                  [] c.val >= 2 -> 20
                  [] OTHER -> 0))

\* db = FALSE: the store lookup raises, the handler returns 0
calculate_trending_score(product, store, t, db) ==
    LET row == store.trending[product.product_id]
        clicks == count_history(store.history, product.product_id, "click",
                                t - 24 * Hour)
    IN  IF ~db THEN 0
        ELSE IF row.exists
             THEN MinI(Pts(row.trend_score) + Pts(row.click_velocity), Pts(100))
        ELSE IF clicks > 0 THEN Pts(MinI(clicks * 10, 100))
        ELSE 0

get_historical_score(product_id, store, db) ==
    LET row == store.posted[product_id]
        historical_score == (row.conversion_score + row.engagement_score) \div 2
        boost == CASE row.clicks > 100 -> 20
                   [] row.clicks > 50 -> 10
                   [] row.clicks > 10 -> 5
                   [] OTHER -> 0
    IN  IF ~db THEN 0
        ELSE IF row.exists THEN MinI(historical_score + Pts(boost), Pts(100))
        ELSE 0

calculate_freshness_score(product, store, t, db) ==
    LET row == store.posted[product.product_id]
        days_since_post == (t - row.posted_at) \div Day
    IN  IF ~db THEN 0
        ELSE IF ~row.exists THEN Pts(50)
        ELSE Pts(CASE days_since_post = 0 -> 0
                   [] days_since_post <= 1 -> 10
                   [] days_since_post <= 7 -> 20
                   [] days_since_post <= 30 -> 30
                   [] OTHER -> 40)

\* a boost that adds up every tier the product reaches
premium_boost_cumulative(product) ==
    LET rating == to_number(product.rating).val
        volume == to_number(product.volume).val
        discount == raw_number(product.calculated_discount).val
    IN  (IF rating >= 45 /\ volume >= 1000 /\ discount >= 30 THEN 15 ELSE 0)
      + (IF rating >= 40 /\ volume >= 500 /\ discount >= 20 THEN 10 ELSE 0)
      + (IF rating >= 35 /\ volume >= 100 THEN 5 ELSE 0)

\* the boost of _apply_premium_boost, in points
premium_boost(product) ==
    LET rating == to_number(product.rating).val
        volume == to_number(product.volume).val
        discount == raw_number(product.calculated_discount).val
    IN  CASE rating >= 45 /\ volume >= 1000 /\ discount >= 30 -> 15
          [] rating >= 40 /\ volume >= 500 /\ discount >= 20 -> 10
          [] rating >= 35 /\ volume >= 100 -> 5
          [] OTHER -> 0

apply_premium_boost(product, base_score) ==
    IF \/ ~to_number(product.rating).ok
       \/ ~to_number(product.volume).ok
       \/ ~raw_number(product.calculated_discount).ok
    THEN Raised
    ELSE Ok(MinI(base_score + Pts(premium_boost(product)), Pts(100)))

weighted_sum(scores) ==
    ( scores.discount * weights.discount + scores.rating * weights.rating
    + scores.volume * weights.volume + scores.commission * weights.commission
    + scores.trending * weights.trending
    + scores.historical * weights.historical
    + scores.freshness * weights.freshness ) \div 100

\* "Normalizar para 0-100"
normalize(final_score) == MinI(MaxI(final_score, 0), Pts(100))

\* score_product with neither the min(100, .) of _apply_premium_boost nor
\* its own max(0, min(100, .))
score_product_unclamped(product, store, t, db) ==
    LET d == calculate_discount_score(product)
        r == calculate_rating_score(product)
        v == calculate_volume_score(product)
        c == calculate_commission_score(product)
        scores == [discount |-> d.val, rating |-> r.val, volume |-> v.val,
                   commission |-> c.val,
                   trending |-> calculate_trending_score(product, store, t,
                                                          db.trending),
                   historical |-> get_historical_score(product.product_id,
                                                       store, db.historical),
                   freshness |-> calculate_freshness_score(product, store, t,
                                                           db.freshness)]
    IN  IF ~d.ok \/ ~r.ok \/ ~v.ok \/ ~c.ok THEN 0
        ELSE weighted_sum(scores) + Pts(premium_boost(product))

\* db: which of the three store lookups work
DbUp == [trending |-> TRUE, historical |-> TRUE, freshness |-> TRUE]
DbDown == [trending |-> FALSE, historical |-> FALSE, freshness |-> FALSE]

score_product(product, store, t, db) ==
    LET d == calculate_discount_score(product)
        r == calculate_rating_score(product)
        v == calculate_volume_score(product)
        c == calculate_commission_score(product)
        scores == [discount |-> d.val, rating |-> r.val, volume |-> v.val,
                   commission |-> c.val,
                   trending |-> calculate_trending_score(product, store, t,
                                                          db.trending),
                   historical |-> get_historical_score(product.product_id,
                                                       store, db.historical),
                   freshness |-> calculate_freshness_score(product, store, t,
                                                           db.freshness)]
        boosted == apply_premium_boost(product, weighted_sum(scores))
    IN  IF ~d.ok \/ ~r.ok \/ ~v.ok \/ ~c.ok \/ ~boosted.ok THEN 0
        ELSE normalize(boosted.val)

----------------------------------------------------------------------------
(* HistoryStore / RepetitionGuard *)

\* _extract_category: the title is modelled by the set of keywords in it
extract_category(product) ==
    LET title == product.product_title IN
    CASE title \cap {"phone", "celular", "smartphone"} # {} -> "electronics"
      [] title \cap {"clothes", "roupa", "camiseta"} # {} -> "clothing"
      [] title \cap {"home", "casa", "decoration"} # {} -> "home"
      [] title \cap {"beauty", "cosmetic", "makeup"} # {} -> "beauty"
      [] OTHER -> "general"

\* product.get(key, 0) as bound to an SQL parameter
get_or_zero(f) == IF f.kind = "missing" THEN Num(0) ELSE f

\* can_post_product answering False for a product never posted
can_post_product_closed(product_id, force_post, store, t, db) ==
    LET row == store.posted[product_id]
        since == t - row.posted_at
    IN  IF ~db THEN TRUE
        ELSE IF ~row.exists THEN FALSE
        ELSE IF since < 48 * Hour
             THEN force_post \/ (row.conversion_score > Pts(80) /\ row.clicks > 50)
        ELSE IF row.conversion_score < Pts(30) /\ since < 72 * Hour THEN FALSE
        ELSE TRUE

\* can_post_product without the high-performer exception
can_post_product_no_override(product_id, force_post, store, t, db) ==
    LET row == store.posted[product_id]
        since == t - row.posted_at
    IN  IF ~db THEN TRUE
        ELSE IF ~row.exists THEN TRUE
        ELSE IF since < 48 * Hour THEN force_post
        ELSE IF row.conversion_score < Pts(30) /\ since < 72 * Hour THEN FALSE
        ELSE TRUE

\* can_post_product answering False when the lookup raises
can_post_product_fail_closed(product_id, force_post, store, t, db) ==
    LET row == store.posted[product_id]
        since == t - row.posted_at
    IN  IF ~db THEN FALSE
        ELSE IF ~row.exists THEN TRUE
        ELSE IF since < 48 * Hour
             THEN force_post \/ (row.conversion_score > Pts(80) /\ row.clicks > 50)
        ELSE IF row.conversion_score < Pts(30) /\ since < 72 * Hour THEN FALSE
        ELSE TRUE

\* db = FALSE: the lookup raises and the handler answers True
can_post_product(product_id, force_post, store, t, db) ==
    LET row == store.posted[product_id]
        since == t - row.posted_at      \* hours_since_post, in seconds
    IN  IF ~db THEN TRUE
        ELSE IF ~row.exists THEN TRUE
        ELSE IF since < 48 * Hour
             THEN force_post \/ (row.conversion_score > Pts(80) /\ row.clicks > 50)
        ELSE IF row.conversion_score < Pts(30) /\ since < 72 * Hour THEN FALSE
        ELSE TRUE

\* INSERT OR REPLACE INTO posted_products: the columns the statement does
\* not name (clicks, engagement_score, last_click_at) take their defaults
posted_row(product, score, t) ==
    [exists |-> TRUE, posted_at |-> t, clicks |-> 0,
     conversion_score |-> score, engagement_score |-> 0,
     last_click_at |-> Null, category |-> extract_category(product),
     discount |-> get_or_zero(product.calculated_discount),
     rating |-> get_or_zero(product.rating),
     volume |-> get_or_zero(product.volume)]

HistoryEvent(id, action, t, impact) ==
    [product_id |-> id, action |-> action, timestamp |-> t,
     score_impact |-> impact]

\* record_post writing the history event but no posted_products row
record_post_log_only(product, score, store, t, db) ==
    IF ~db THEN store
    ELSE [store EXCEPT
            !.history = Append(@, HistoryEvent(product.product_id, "post", t,
                                               score))]

\* record_post writing the posted_products row but no history event
record_post_row_only(product, score, store, t, db) ==
    IF ~db THEN store
    ELSE [store EXCEPT
            !.posted[product.product_id] = posted_row(product, score, t)]

\* db = FALSE: the transaction raises before its commit and nothing is kept
record_post(product, score, store, t, db) ==
    IF ~db THEN store
    ELSE [store EXCEPT
            !.posted[product.product_id] = posted_row(product, score, t),
            !.history = Append(@, HistoryEvent(product.product_id, "post", t,
                                               score))]

\* _update_trending_score opens a connection of its own.  write_locked:
\* another connection holds an uncommitted write transaction, so the COUNT
\* does not see that transaction's rows and the INSERT OR REPLACE ends in
\* "database is locked", which the handler logs and swallows.
update_trending_score(product_id, store, committed, t, write_locked) ==
    LET click_velocity == count_history(committed.history, product_id,
                                        "click", t - Hour)
    IN  IF write_locked THEN store
        ELSE [store EXCEPT !.trending[product_id] =
                 [exists |-> TRUE,
                  trend_score |-> MinI(click_velocity * 10, 100),
                  click_velocity |-> click_velocity, last_seen |-> t]]

\* record_click whose UPDATE has no WHERE clause
record_click_all_rows(product_id, store, t, db) ==
    LET updated == [store EXCEPT !.posted =
                      [id \in DOMAIN store.posted |->
                         IF store.posted[id].exists
                         THEN [store.posted[id] EXCEPT !.clicks = @ + 1,
                                                       !.last_click_at = t]
                         ELSE store.posted[id]]]
        logged == [updated EXCEPT
                     !.history = Append(@, HistoryEvent(product_id, "click",
                                                        t, 0))]
    IN  IF ~db THEN store ELSE logged

record_click(product_id, store, t, db) ==
    LET row == store.posted[product_id]
        updated == IF row.exists
                   THEN [store EXCEPT !.posted[product_id].clicks = @ + 1,
                                      !.posted[product_id].last_click_at = t]
                   ELSE store
        logged == [updated EXCEPT
                     !.history = Append(@, HistoryEvent(product_id, "click",
                                                        t, 0))]
    IN  IF ~db THEN store
        ELSE update_trending_score(product_id, logged, store, t, TRUE)

----------------------------------------------------------------------------
(* The model's universe of products *)

Ids == {"p1", "p2"}

Candidate(id, title, discount, rating, reviews, volume, commission) ==
    [product_id |-> id, product_title |-> title,
     calculated_discount |-> discount, rating |-> rating,
     review_count |-> reviews, volume |-> volume,
     commission_rate |-> commission]

\* what the marketplace returns for each id: p1 is the worked example of the
\* scoring section (80.5 points when never posted), p2 a weak product
Catalog ==
    [id \in Ids |->
       IF id = "p1"
       THEN Candidate(id, {"smartphone"}, Num(55), Num(46), Num(700),
                      Num(6000), Num(9))
       ELSE Candidate(id, {"casa"}, Num(15), Num(32), Num(10), Num(50),
                      Num(3))]

\* every table empty
EmptyStore ==
    Store([id \in Ids |-> NoRow], << >>, [id \in Ids |-> NoTrend])

CurStore == Store(posted_products, product_history, trending_products)

\* the store after n committed record_click calls on id at time t: each call
\* adds 1 to the row's clicks, stamps last_click_at and logs one click event
clicked(store, id, n, t) ==
    LET row == store.posted[id]
        updated == IF row.exists /\ n > 0
                   THEN [store EXCEPT !.posted[id].clicks = @ + n,
                                      !.posted[id].last_click_at = t]
                   ELSE store
    IN  [updated EXCEPT
           !.history = @ \o [i \in 1..n |-> HistoryEvent(id, "click", t, 0)]]

----------------------------------------------------------------------------
(* State after construction: PostingScheduler.__init__, TelegramBot.__init__,
   Config, and an initialised, empty database *)

config_init ==
    /\ POST_MIN_PER_HOUR = 20
    /\ POST_MAX_PER_HOUR = 25

scheduler_init ==
    /\ is_active = TRUE
    /\ hourly_target = 0
    /\ current_hour_posts = 0
    /\ posted_this_hour = << >>
    /\ jobs = {}
    /\ passes = {}
    /\ handlers = {}
    /\ events = << >>

init_db ==
    /\ posted_products = EmptyStore.posted
    /\ product_history = EmptyStore.history
    /\ trending_products = EmptyStore.trending

NoObs == [op |-> "none"]

----------------------------------------------------------------------------
(* Target count: PostingScheduler._calculate_hourly_posts *)

peak_hours == {12, 13, 14, 20, 21}

\* _calculate_hourly_posts without the final min(final_posts, POST_MAX_PER_HOUR)
calculate_hourly_posts_unclamped(hour, lo, hi, base, boost, variation) ==
    LET base_posts == IF hour \in peak_hours THEN MinI(base + boost, hi)
                      ELSE base
    IN  MaxI(base_posts + variation, lo)

\* base, boost and variation are the three random.randint draws
calculate_hourly_posts(hour, lo, hi, base, boost, variation) ==
    LET base_posts == IF hour \in peak_hours THEN MinI(base + boost, hi)
                      ELSE base
        final_posts == MaxI(base_posts + variation, lo)
    IN  MinI(final_posts, hi)

\* /frequencia <min> <max> sent by the administrator
FrequencyArgs == {0, 1, 5, 20, 25, 51}

frequency_command(min_posts, max_posts) ==
    /\ ~(min_posts < 1 \/ max_posts < min_posts \/ max_posts > 50)
    /\ POST_MIN_PER_HOUR' = min_posts
    /\ POST_MAX_PER_HOUR' = max_posts

FrequencyCommand ==
    /\ \E a \in FrequencyArgs, b \in FrequencyArgs : frequency_command(a, b)
    /\ obs' = NoObs
    /\ UNCHANGED <<now, storeVars, is_active, hourly_target,
                   current_hour_posts, posted_this_hour, jobs, passes,
                   handlers, events, steps>>

\* the caller takes the result of the last call
Return ==
    /\ obs # NoObs
    /\ obs' = NoObs
    /\ UNCHANGED <<now, storeVars, schedVars, steps>>

TargetCall ==
    /\ obs = NoObs
    /\ POST_MIN_PER_HOUR <= POST_MAX_PER_HOUR    \* else randint raises
    /\ \E hour \in 0..23,
          base \in POST_MIN_PER_HOUR..POST_MAX_PER_HOUR,
          boost \in 2..5, variation \in (0 - 2)..2 :
          /\ (hour \notin peak_hours => boost = 2)   \* boost is not drawn
          /\ obs' = [op |-> "calculate_hourly_posts", hour |-> hour,
                     lo |-> POST_MIN_PER_HOUR, hi |-> POST_MAX_PER_HOUR,
                     base |-> base, boost |-> boost, variation |-> variation,
                     result |-> calculate_hourly_posts(hour,
                                   POST_MIN_PER_HOUR, POST_MAX_PER_HOUR,
                                   base, boost, variation)]
    /\ UNCHANGED <<now, storeVars, schedVars, steps>>

InitTarget ==
    /\ now = 0
    /\ init_db
    /\ config_init
    /\ scheduler_init
    /\ obs = NoObs
    /\ steps = 0

NextTarget == FrequencyCommand \/ TargetCall \/ Return

SpecTarget == InitTarget /\ [][NextTarget]_vars

\* C4: with min <= max, whatever the hour and the three draws, the target
\* count returned by _calculate_hourly_posts lies within [min, max].
C4_TargetWithinBounds ==
    obs.op = "calculate_hourly_posts" =>
        (obs.lo <= obs.result /\ obs.result <= obs.hi)

\* a peak hour under [20,25] where boost and perturbation both overshoot
C4_Witness ==
    /\ obs.op = "calculate_hourly_posts"
    /\ obs.lo = 20 /\ obs.hi = 25 /\ obs.hour \in peak_hours
    /\ obs.base + obs.boost > 25 /\ obs.variation = 2
    /\ obs.result = 25

----------------------------------------------------------------------------
(* Scoring: ProductAI.score_product applied to candidates of every shape   *)

Bad == Field("bad", 0)

DiscountFields == {Missing, Bad, Field("numstr", 55), Num(0 - 5), Num(55),
                   Num(70)}
RatingFields == {Missing, Bad, Field("numstr", 46), Num(34), Num(46), Num(48)}
ReviewFields == {Missing, Bad, Num(700)}
VolumeFields == {Missing, Bad, Num(6000), Num(10000)}
CommissionFields == {Missing, Bad, Num(9), Num(10)}

ScoreProducts ==
    { Candidate("p1", {"smartphone"}, d, r, n, v, c) :
        d \in DiscountFields, r \in RatingFields, n \in ReviewFields,
        v \in VolumeFields, c \in CommissionFields }

\* stores the operations produce when run at time 0: nothing; clicks on a
\* product never posted; a post followed by clicks
BaseStores ==
    {EmptyStore, clicked(EmptyStore, "p1", 12, 0)}
    \cup { clicked(record_post(Catalog["p1"], sc[1], EmptyStore, 0, TRUE),
                   "p1", sc[2], 0) :
             sc \in {<<Pts(100), 0>>, <<Pts(100), 101>>, <<0, 11>>} }

\* the same stores with the row of trending_products that
\* _update_trending_score inserts when no other connection holds the write
\* lock (inside record_click one always does)
ScoreStores ==
    BaseStores \cup
    { update_trending_score("p1", st, st, 0, FALSE) : st \in BaseStores }

ScoreTimes == {0, Day, 40 * Day}

DbStates == {DbUp, DbDown, [DbUp EXCEPT !.trending = FALSE]}

ScoreCall ==
    /\ obs = NoObs
    /\ \E product \in ScoreProducts, db \in DbStates :
          obs' = [op |-> "score_product", product |-> product, db |-> db,
                  result |-> score_product(product, CurStore, now, db)]
    /\ UNCHANGED <<now, storeVars, schedVars, steps>>

\* candidates on either side of every threshold of the premium tiers
BoostProducts ==
    { Candidate("p1", {"smartphone"}, Num(d), Num(r), Num(700), Num(v),
                Num(9)) :
        d \in {19, 20, 29, 30}, r \in {34, 35, 39, 40, 44, 45},
        v \in {99, 100, 499, 500, 999, 1000} }
    \cup {Catalog["p1"], [Catalog["p1"] EXCEPT !.rating = Bad]}

\* weighted sums _apply_premium_boost is called with
BaseScores == {0, Pts(50), Pts(84), Pts(86), Pts(91), Pts(96), Pts(100)}

BoostCall ==
    /\ obs = NoObs
    /\ \E product \in BoostProducts, base_score \in BaseScores :
          obs' = [op |-> "apply_premium_boost", product |-> product,
                  base_score |-> base_score,
                  result |-> apply_premium_boost(product, base_score)]
    /\ UNCHANGED <<now, storeVars, schedVars, steps>>

\* discounts from below zero to 100 per cent
Discounts == (0 - 5)..100

DiscountCall ==
    /\ obs = NoObs
    /\ \E d \in Discounts :
          \E product \in {[Catalog["p1"] EXCEPT
                              !.calculated_discount = Num(d)]} :
             obs' = [op |-> "calculate_discount_score", product |-> product,
                     result |-> calculate_discount_score(product)]
    /\ UNCHANGED <<now, storeVars, schedVars, steps>>

InitScore ==
    /\ now \in ScoreTimes
    /\ \E st \in ScoreStores :
          /\ posted_products = st.posted
          /\ product_history = st.history
          /\ trending_products = st.trending
    /\ config_init
    /\ scheduler_init
    /\ obs = NoObs
    /\ steps = 0

NextScore == ScoreCall \/ BoostCall \/ DiscountCall \/ Return

SpecScore == InitScore /\ [][NextScore]_vars

\* C2: for every candidate, whatever its fields hold or lack, and every
\* store state, score_product returns a value in [0, 100].
C2_ScoreInRange ==
    obs.op = "score_product" => (0 <= obs.result /\ obs.result <= Pts(100))

\* a candidate whose weighted sum plus premium boost exceeds 100 and is
\* returned as exactly 100
C2_Witness ==
    /\ obs.op = "score_product"
    /\ obs.result = Pts(100)
    /\ score_product_unclamped(obs.product, CurStore, now, obs.db) > Pts(100)

\* C16: for a candidate whose fields score_product can read, the result is
\* 0.25 discount + 0.20 rating + 0.15 volume + 0.15 commission
\* + 0.10 trending + 0.10 historical + 0.05 freshness plus the premium
\* boost, clamped to [0, 100]; the candidate with discount 55, rating 4.6,
\* 700 reviews, volume 6000, commission 9, never posted, scores 80.5.
C16_WeightedSumPlusBoost ==
    obs.op = "score_product" =>
        LET p == obs.product
            d == calculate_discount_score(p)
            r == calculate_rating_score(p)
            v == calculate_volume_score(p)
            c == calculate_commission_score(p)
            t == calculate_trending_score(p, CurStore, now, obs.db.trending)
            h == get_historical_score(p.product_id, CurStore,
                                      obs.db.historical)
            f == calculate_freshness_score(p, CurStore, now,
                                           obs.db.freshness)
            sum == (25 * d.val + 20 * r.val + 15 * v.val + 15 * c.val
                    + 10 * t + 10 * h + 5 * f) \div 100
        IN  /\ (d.ok /\ r.ok /\ v.ok /\ c.ok) =>
                  obs.result = MaxI(0, MinI(sum + Pts(premium_boost(p)),
                                            Pts(100)))
            /\ (/\ p = Catalog["p1"] /\ obs.db.freshness
                /\ ~posted_products["p1"].exists
                /\ product_history = << >> /\ ~trending_products["p1"].exists)
               => obs.result = Pts(80) + 500

\* the worked example is scored on an empty store
C16_Witness ==
    /\ obs.op = "score_product" /\ obs.product = Catalog["p1"]
    /\ obs.db = DbUp /\ CurStore = EmptyStore
    /\ obs.result = Pts(80) + 500

\* C17: _apply_premium_boost adds exactly one of 0, 5, 10, 15, the boost of
\* the first tier the candidate reaches (15: rating >= 4.5, volume >= 1000,
\* discount >= 30; 10: rating >= 4.0, volume >= 500, discount >= 20;
\* 5: rating >= 3.5, volume >= 100), and returns at most 100.
C17_OneBoostTier ==
    (obs.op = "apply_premium_boost" /\ obs.result.ok) =>
        LET rating == obs.product.rating.val
            volume == obs.product.volume.val
            discount == obs.product.calculated_discount.val
            tier == IF rating >= 45 /\ volume >= 1000 /\ discount >= 30
                    THEN 15
                    ELSE IF rating >= 40 /\ volume >= 500 /\ discount >= 20
                    THEN 10
                    ELSE IF rating >= 35 /\ volume >= 100 THEN 5
                    ELSE 0
        IN  /\ obs.result.val = MinI(obs.base_score + Pts(tier), Pts(100))
            /\ obs.result.val <= Pts(100)

\* a candidate that reaches all three tiers is given 15 points, not 30
C17_Witness ==
    /\ obs.op = "apply_premium_boost" /\ obs.result.ok
    /\ obs.product.rating = Num(45) /\ obs.product.volume = Num(1000)
    /\ obs.product.calculated_discount = Num(30)
    /\ obs.base_score = Pts(50) /\ obs.result.val = Pts(65)

\* C18: _calculate_discount_score is the step function 100 from 70, 80 from
\* 50, 60 from 30, 40 from 20, 20 from 10 and 0 below, negative discounts
\* included; a larger discount never scores less.
C18_DiscountTiers ==
    obs.op = "calculate_discount_score" =>
        LET d == obs.product.calculated_discount.val
            tier == IF d >= 70 THEN 100 ELSE IF d >= 50 THEN 80
                    ELSE IF d >= 30 THEN 60 ELSE IF d >= 20 THEN 40
                    ELSE IF d >= 10 THEN 20 ELSE 0
        IN  /\ obs.result = Ok(Pts(tier))
            /\ \A e \in Discounts :
                  e <= d =>
                     calculate_discount_score(
                        [obs.product EXCEPT !.calculated_discount = Num(e)]
                     ).val <= obs.result.val

\* a discount of exactly 70 scores 100
C18_Witness ==
    /\ obs.op = "calculate_discount_score"
    /\ obs.product.calculated_discount = Num(70)
    /\ obs.result = Ok(Pts(100))

\* C24: a candidate field that is missing or not a number counts as 0: the
\* score is the one of the same candidate with every such field left out, so
\* the sub-scores of the other fields still contribute.
C24_BadFieldCountsAsZero ==
    (/\ obs.op = "score_product"
     /\ obs.product.calculated_discount.kind # "numstr"
     /\ obs.product.rating.kind # "numstr") =>
        LET fix(f) == IF f.kind = "bad" THEN Missing ELSE f
            defaulted == [obs.product EXCEPT
                            !.calculated_discount = fix(@),
                            !.rating = fix(@), !.review_count = fix(@),
                            !.volume = fix(@), !.commission_rate = fix(@)]
        IN  obs.result = score_product(defaulted, CurStore, now, obs.db)

----------------------------------------------------------------------------
(* HistoryStore: record_post, record_click and can_post_product called in  *)
(* any order while the clock advances                                      *)

\* most calls that write to the database in one behaviour, on top of those
\* that built the store the behaviour starts from
MaxCalls == 1

\* instants, in seconds, around the 48 h and 72 h thresholds
TimeGrid == {0, 10 * Hour, 48 * Hour - 1, 48 * Hour, 72 * Hour - 1,
             72 * Hour}

\* scores post_product hands to record_post
PostScores == {0, Pts(20), Pts(85), Pts(100)}

\* stores left by earlier calls: nothing; clicks on a product never posted;
\* p1 posted at time 0 with a score at or beside a threshold of
\* can_post_product and clicked since; both products posted
StoreInits ==
    {EmptyStore, clicked(EmptyStore, "p2", 3, 0),
     record_post(Catalog["p2"], Pts(20),
                 clicked(record_post(Catalog["p1"], Pts(85), EmptyStore, 0,
                                     TRUE), "p1", 51, 0), 0, TRUE)}
    \cup { clicked(record_post(Catalog["p1"], sc[1], EmptyStore, 0, TRUE),
                   "p1", sc[2], 0) :
             sc \in {<<Pts(85), 60>>, <<Pts(85), 50>>, <<Pts(80), 60>>,
                     <<Pts(30), 0>>, <<Pts(20), 60>>} }

Advance ==
    /\ \E t \in TimeGrid : t > now /\ now' = t
    /\ obs' = NoObs
    /\ UNCHANGED <<storeVars, schedVars, steps>>

SetStore(st) ==
    /\ posted_products' = st.posted
    /\ product_history' = st.history
    /\ trending_products' = st.trending

RecordPost ==
    /\ steps < MaxCalls
    /\ \E id \in Ids, score \in PostScores, db \in BOOLEAN :
          /\ SetStore(record_post(Catalog[id], score, CurStore, now, db))
          /\ obs' = [op |-> "record_post", id |-> id, score |-> score,
                     ok |-> db, before |-> CurStore]
    /\ steps' = steps + 1
    /\ UNCHANGED <<now, schedVars>>

RecordClick ==
    /\ steps < MaxCalls
    /\ \E id \in Ids, db \in BOOLEAN :
          /\ SetStore(record_click(id, CurStore, now, db))
          /\ obs' = [op |-> "record_click", id |-> id, ok |-> db,
                     before |-> CurStore]
    /\ steps' = steps + 1
    /\ UNCHANGED <<now, schedVars>>

CanPost ==
    /\ \E id \in Ids, force_post \in BOOLEAN, db \in BOOLEAN :
          obs' = [op |-> "can_post_product", id |-> id,
                  force_post |-> force_post, ok |-> db,
                  result |-> can_post_product(id, force_post, CurStore,
                                              now, db)]
    /\ UNCHANGED <<now, storeVars, schedVars, steps>>

\* _cleanup_cache: "async with self.product_ai.db_path as db" enters a str,
\* which is no context manager; the statement raises before either DELETE
\* is sent and the handler logs the error
cleanup_cache(store, t) == store

CleanupCache ==
    /\ SetStore(cleanup_cache(CurStore, now))
    /\ obs' = [op |-> "cleanup_cache", before |-> CurStore]
    /\ UNCHANGED <<now, schedVars, steps>>

\* what get_statistics returns: the dictionary it built, or {}
Stats(total_posts, total_clicks, top_products, avg_score) ==
    [empty |-> FALSE, total_posts |-> total_posts,
     total_clicks |-> total_clicks, top_products |-> top_products,
     avg_score |-> avg_score]

NoStats ==
    [empty |-> TRUE, total_posts |-> 0, total_clicks |-> 0,
     top_products |-> << >>, avg_score |-> 0]

\* get_statistics: COUNT(*) and SUM(clicks) are answered, then
\* "SELECT product_title, clicks FROM posted_products" names a column the
\* table does not have; the statement raises, the handler returns {}.  With
\* db = FALSE the first statement raises already.
get_statistics(store, db) == NoStats

GetStatistics ==
    /\ \E db \in BOOLEAN :
          obs' = [op |-> "get_statistics", ok |-> db,
                  result |-> get_statistics(CurStore, db)]
    /\ UNCHANGED <<now, storeVars, schedVars, steps>>

InitStore ==
    /\ now = 0
    /\ \E st \in StoreInits :
          /\ posted_products = st.posted
          /\ product_history = st.history
          /\ trending_products = st.trending
    /\ config_init
    /\ scheduler_init
    /\ obs = NoObs
    /\ steps = 0

NextStore == Advance \/ RecordPost \/ RecordClick \/ CanPost

SpecStore == InitStore /\ [][NextStore]_vars

\* the days on either side of the 7 and 30 days _cleanup_cache keeps
MaintDays == {0, 6, 8, 29, 31}

AdvanceDays ==
    /\ \E d \in MaintDays : d * Day > now /\ now' = d * Day
    /\ obs' = NoObs
    /\ UNCHANGED <<storeVars, schedVars, steps>>

\* the store over a month: posts and clicks recorded, the periodic cleanup
\* and the statistics of the daily backup
NextMaint ==
    \/ AdvanceDays \/ RecordPost \/ RecordClick \/ CleanupCache
    \/ GetStatistics

SpecMaint == InitStore /\ [][NextMaint]_vars

\* C5: immediately after a record_post(candidate, score) that stored its
\* row, can_post_product(id) is false unless force_post is set or the stored
\* row has conversion_score > 80 and clicks > 50.
C5_DeniedAfterRecordPost ==
    (obs.op = "record_post" /\ obs.ok) =>
        \A force_post \in BOOLEAN :
            can_post_product(obs.id, force_post, CurStore, now, TRUE) =>
                \/ force_post
                \/ /\ posted_products[obs.id].conversion_score > Pts(80)
                   /\ posted_products[obs.id].clicks > 50

\* a high performer (score 85, more than 50 clicks) posted again with score
\* 85: the new row starts at 0 clicks and only force_post allows a repeat
C5_Witness ==
    /\ obs.op = "record_post" /\ obs.ok /\ obs.score = Pts(85)
    /\ obs.before.posted[obs.id].exists
    /\ obs.before.posted[obs.id].conversion_score = Pts(85)
    /\ obs.before.posted[obs.id].clicks > 50
    /\ ~can_post_product(obs.id, FALSE, CurStore, now, TRUE)
    /\ can_post_product(obs.id, TRUE, CurStore, now, TRUE)

\* C6: can_post_product(id) is true whenever posted_products has no row for
\* id, whatever force_post, the history log and the trending table hold.
C6_NeverPostedAllowed ==
    (obs.op = "can_post_product" /\ ~posted_products[obs.id].exists) =>
        obs.result = TRUE

\* a product with click events in the log but no row, asked without force_post
C6_Witness ==
    /\ obs.op = "can_post_product" /\ obs.ok /\ ~obs.force_post
    /\ ~posted_products[obs.id].exists
    /\ \E i \in 1..Len(product_history) :
          product_history[i].product_id = obs.id
    /\ obs.result = TRUE

\* C7: for an existing row, can_post_product equals the reference decision:
\* under 48 h since the post, force_post or (conversion_score > 80 and
\* clicks > 50); from 48 h on, false exactly when conversion_score < 30 and
\* under 72 h since the post.
C7_MatchesReference ==
    (obs.op = "can_post_product" /\ obs.ok
        /\ posted_products[obs.id].exists) =>
        LET row == posted_products[obs.id]
            since == now - row.posted_at
        IN  obs.result =
              IF since < 48 * Hour
              THEN obs.force_post
                   \/ (row.conversion_score > Pts(80) /\ row.clicks > 50)
              ELSE ~(row.conversion_score < Pts(30) /\ since < 72 * Hour)

\* conversion_score 85, 60 clicks, posted 10 hours ago, no force_post: allowed
C7_Witness ==
    /\ obs.op = "can_post_product" /\ obs.ok /\ ~obs.force_post
    /\ posted_products[obs.id].exists
    /\ posted_products[obs.id].conversion_score = Pts(85)
    /\ posted_products[obs.id].clicks = 60
    /\ now - posted_products[obs.id].posted_at = 10 * Hour
    /\ obs.result = TRUE

\* C8: record_click(id) on a product with a row adds exactly 1 to the row's
\* clicks, sets last_click_at to the call time, appends exactly one click
\* event for id to the history, and leaves every other product's row as it was.
C8_ClickCountsOnce ==
    (obs.op = "record_click" /\ obs.ok
        /\ obs.before.posted[obs.id].exists) =>
        /\ posted_products[obs.id].clicks =
              obs.before.posted[obs.id].clicks + 1
        /\ posted_products[obs.id].last_click_at = now
        /\ product_history =
              Append(obs.before.history, HistoryEvent(obs.id, "click", now, 0))
        /\ \A other \in Ids \ {obs.id} :
              posted_products[other] = obs.before.posted[other]

\* p1 clicked 10 hours or more after its post while p2 has a row of its own
C8_Witness ==
    /\ obs.op = "record_click" /\ obs.ok /\ obs.id = "p1"
    /\ obs.before.posted["p1"].exists /\ posted_products["p2"].exists
    /\ now >= 10 * Hour
    /\ posted_products["p1"].clicks = 52

\* C19: after a record_post(candidate, score) that committed, the row of
\* posted_products for the candidate's id holds the call time, the score and
\* the candidate's discount, rating, volume and category; the history has
\* exactly one more entry, (id, post, score); every other product's row is
\* as it was.
C19_RecordPostWritesOneRow ==
    (obs.op = "record_post" /\ obs.ok) =>
        LET row == posted_products[obs.id]
            candidate == Catalog[obs.id]
        IN  /\ row.exists /\ row.posted_at = now
            /\ row.conversion_score = obs.score
            /\ row.discount = candidate.calculated_discount
            /\ row.rating = candidate.rating
            /\ row.volume = candidate.volume
            /\ row.category = extract_category(candidate)
            /\ Len(product_history) = Len(obs.before.history) + 1
            /\ SubSeq(product_history, 1, Len(obs.before.history))
                  = obs.before.history
            /\ product_history[Len(product_history)] =
                  [product_id |-> obs.id, action |-> "post",
                   timestamp |-> now, score_impact |-> obs.score]
            /\ \A other \in Ids \ {obs.id} :
                  posted_products[other] = obs.before.posted[other]

\* p1 is posted again, 48 hours or more after its last post, with a new
\* score, while p2 has a row of its own
C19_Witness ==
    /\ obs.op = "record_post" /\ obs.ok /\ obs.id = "p1"
    /\ obs.before.posted["p1"].exists /\ posted_products["p2"].exists
    /\ now >= 48 * Hour
    /\ obs.score # obs.before.posted["p1"].conversion_score
    /\ posted_products["p1"].category = "electronics"

\* C20: after a record_click(id) that committed, trending_products has a row
\* for id whose click_velocity is the number of click events for id in the
\* hour before the call, the new one included, and whose trend_score is
\* min(click_velocity * 10, 100).
C20_ClickRefreshesTrending ==
    (obs.op = "record_click" /\ obs.ok) =>
        LET row == trending_products[obs.id]
            velocity == Cardinality({i \in 1..Len(product_history) :
                            /\ product_history[i].product_id = obs.id
                            /\ product_history[i].action = "click"
                            /\ product_history[i].timestamp > now - Hour})
        IN  /\ row.exists
            /\ row.click_velocity = velocity
            /\ row.trend_score = MinI(velocity * 10, 100)

\* C21: after _cleanup_cache has run, trending_products holds no row last
\* seen more than 7 days ago and product_history no event more than 30 days
\* old; newer rows and events and every row of posted_products are as they
\* were.
C21_CleanupRemovesOldRows ==
    obs.op = "cleanup_cache" =>
        /\ \A id \in Ids :
              trending_products[id].exists =>
                 trending_products[id].last_seen >= now - 7 * Day
        /\ \A i \in 1..Len(product_history) :
              product_history[i].timestamp >= now - 30 * Day
        /\ product_history =
              SelectSeq(obs.before.history,
                        LAMBDA e : e.timestamp >= now - 30 * Day)
        /\ posted_products = obs.before.posted

\* C22: with the database reachable, get_statistics returns the number of
\* rows of posted_products, the sum of their clicks, the mean of their
\* conversion_score and the (up to) 5 rows with the most clicks; when the
\* database fails it returns empty data.
C22_StatisticsMatchStore ==
    obs.op = "get_statistics" =>
        LET rows == {id \in Ids : posted_products[id].exists}
            Sum[ids \in SUBSET Ids] ==
                IF ids = {} THEN [clicks |-> 0, score |-> 0]
                ELSE LET id == CHOOSE x \in ids : TRUE
                         rest == Sum[ids \ {id}]
                     IN  [clicks |-> posted_products[id].clicks + rest.clicks,
                          score |-> posted_products[id].conversion_score
                                    + rest.score]
            top == obs.result.top_products
        IN  IF ~obs.ok THEN obs.result = NoStats
            ELSE /\ ~obs.result.empty
                 /\ obs.result.total_posts = Cardinality(rows)
                 /\ obs.result.total_clicks = Sum[rows].clicks
                 /\ rows # {} =>
                       obs.result.avg_score * Cardinality(rows)
                          = Sum[rows].score
                 /\ Len(top) = MinI(5, Cardinality(rows))
                 /\ \A i \in 1..Len(top) :
                       /\ top[i].product_id \in rows
                       /\ \A id \in rows :
                             (\A j \in 1..Len(top) : top[j].product_id # id)
                             => posted_products[id].clicks <= top[i].clicks

----------------------------------------------------------------------------
(* Scheduler: clock, job store and candidate selection                     *)

hour_of(t) == (t \div Hour) % 24
hour_start(t) == t - (t % Hour)
Clock(h, m, sec) == h * Hour + m * 60 + sec

\* config.START_TIME / END_TIME, the hour part
start_hour == 8
end_hour == 22

\* AliExpressAPI.timeout: ClientTimeout(total = 30), seconds per request
timeout == 30

\* a window test that every hour passes
in_operating_hours_always(t) == TRUE

in_operating_hours(t) == start_hour <= hour_of(t) /\ hour_of(t) < end_hour

PostJob(product_id, hour, i, run) ==
    [kind |-> "post", name |-> "post", product_id |-> product_id,
     hour |-> hour, i |-> i, run |-> run]

CronJob(name, run) ==
    [kind |-> "cron", name |-> name, product_id |-> "", hour |-> 0, i |-> 0,
     run |-> run]

\* job ids without the hour
same_id_any_hour(a, b) ==
    /\ a.kind = b.kind /\ a.name = b.name /\ a.product_id = b.product_id
    /\ a.i = b.i

\* two jobs carry the same job id
same_id(a, b) ==
    /\ a.kind = b.kind /\ a.name = b.name /\ a.product_id = b.product_id
    /\ a.hour = b.hour /\ a.i = b.i

\* scheduler.add_job(..., id = job_id, replace_existing = True)
add_job(js, job) == {x \in js : ~same_id(x, job)} \cup {job}

\* triggers that all fire once a day, at 02:00
next_fire_daily(name, t) ==
    IF t % Day < 2 * Hour THEN (t \div Day) * Day + 2 * Hour
    ELSE (t \div Day + 1) * Day + 2 * Hour

\* next fire time after t of the three CronTriggers
next_fire(name, t) ==
    CASE name = "hourly_planning" -> hour_start(t) + Hour
      [] name = "cleanup_cache"   -> ((t \div (6 * Hour)) + 1) * 6 * Hour
      [] name = "daily_backup"    ->
            IF t % Day < 2 * Hour THEN (t \div Day) * Day + 2 * Hour
            ELSE (t \div Day + 1) * Day + 2 * Hour

RecurringJobs == {"hourly_planning", "cleanup_cache", "daily_backup"}

\* the delay without its max(0, .)
final_delay_unclamped(draw) == draw[1] * 60 + draw[2] + draw[3]

\* the three draws of one post: minutes, seconds, jitter
final_delay(draw) == MaxI(0, draw[1] * 60 + draw[2] + draw[3])

\* _schedule_posts_for_hour adding its jobs beside those already there
schedule_posts_for_hour_keeping(js, products, current_time, draws) ==
    js \cup { PostJob(products[i].product_id, hour_of(current_time), i - 1,
                      hour_start(current_time) + final_delay(draws[i])) :
                i \in 1..Len(products) }

\* _schedule_posts_for_hour: one DateTrigger job per selected product
schedule_posts_for_hour(js, products, current_time, draws) ==
    LET new == { PostJob(products[i].product_id, hour_of(current_time), i - 1,
                         hour_start(current_time) + final_delay(draws[i])) :
                   i \in 1..Len(products) }
    IN  {x \in js : \A job \in new : ~same_id(x, job)} \cup new

\* the sort without reverse = True: ascending and stable
sort_by_score_ascending(scored) ==
    LET n == Len(scored)
        rank(i) == 1 + Cardinality({j \in 1..n :
                          \/ scored[j][2] < scored[i][2]
                          \/ scored[j][2] = scored[i][2] /\ j < i})
    IN  [k \in 1..n |-> scored[CHOOSE i \in 1..n : rank(i) = k]]

\* list.sort(key = score, reverse = True): descending and stable
sort_by_score(scored) ==
    LET n == Len(scored)
        rank(i) == 1 + Cardinality({j \in 1..n :
                          \/ scored[j][2] > scored[i][2]
                          \/ scored[j][2] = scored[i][2] /\ j < i})
    IN  [k \in 1..n |-> scored[CHOOSE i \in 1..n : rank(i) = k]]

\* seq[:limit]
slice(seq, limit) ==
    IF limit >= 0 THEN SubSeq(seq, 1, MinI(limit, Len(seq)))
    ELSE SubSeq(seq, 1, MaxI(Len(seq) + limit, 0))

\* get_top_products without the [:limit]
get_top_products_unsliced(products, limit, store, t, db) ==
    LET valid == SelectSeq(products,
                   LAMBDA p : can_post_product(p.product_id, FALSE, store, t, db))
        scored == [i \in 1..Len(valid) |->
                     <<valid[i], score_product(valid[i], store, t,
                                     IF db THEN DbUp ELSE DbDown)>>]
        selected == sort_by_score(scored)
    IN  [i \in 1..Len(selected) |-> selected[i][1]]

\* db: whether the database answers during the call.  The except branch
\* (return products[:limit]) needs can_post_product or score_product to raise,
\* and both catch every Exception themselves.
get_top_products(products, limit, store, t, db) ==
    LET valid == SelectSeq(products,
                   LAMBDA p : can_post_product(p.product_id, FALSE, store, t, db))
        scored == [i \in 1..Len(valid) |->
                     <<valid[i], score_product(valid[i], store, t,
                                     IF db THEN DbUp ELSE DbDown)>>]
        selected == slice(sort_by_score(scored), limit)
    IN  [i \in 1..Len(selected) |-> selected[i][1]]

----------------------------------------------------------------------------
(* Scheduler: start, hourly planning, job dispatch, administration         *)

\* most administrative calls (adjust_schedule, emergency_stop, pause or
\* resume; force_post_now under SpecForce) in one behaviour
MaxOps == 1

\* the instants at which a job can come due between a start of the process
\* at 11:30:00 and 12:00:29, between a start in the last operating hour and
\* 22:00:29, and between a start after the operating hours and 23:00:00
Instants ==
    {Clock(11, 30, 0), Clock(12, 0, 0), Clock(12, 0, 29),
     Clock(21, 30, 0), Clock(22, 0, 0), Clock(22, 0, 29),
     Clock(22, 45, 0), Clock(23, 0, 0)}

StartTime == Clock(11, 30, 0)

\* the process is started mid-morning, in the last operating hour, or
\* after the last
StartTimes == {StartTime, Clock(21, 30, 0), Clock(22, 45, 0)}

\* the scheduler is followed for half an hour at a stretch
Watch == Hour \div 2

\* draws of (minutes, seconds, jitter): 29 s into the hour, at the half
\* hour, and the latest fire time there is, 29 s into the next hour
DelayDraws == {<<0, 59, 0 - 30>>, <<30, 0, 0>>, <<59, 59, 30>>}

\* what _fetch_products_for_hour returns: unique products, possibly none
Pools == {<< >>, <<Catalog["p2"], Catalog["p1"]>>}

\* bounds an administrator sets
ScheduleArgs == {<<1, 1>>}

Event(kind, product_id) == [kind |-> kind, product_id |-> product_id]

Pass(origin) ==
    [origin |-> origin, current_time |-> now, stage |-> "fetch",
     products |-> << >>, limit |-> 0]

\* _hourly_planning up to its first await: the operating-hours test, the
\* target of the hour, the reset of the counter and of the fired-set
HourlyPlanningBegin(origin) ==
    IF ~in_operating_hours(now) \/ POST_MIN_PER_HOUR > POST_MAX_PER_HOUR
    THEN UNCHANGED <<hourly_target, current_hour_posts, posted_this_hour,
                     passes, events>>
    ELSE /\ \E base \in POST_MIN_PER_HOUR..POST_MAX_PER_HOUR,
               boost \in {2, 5}, variation \in {0 - 2, 0, 2} :
               hourly_target' = calculate_hourly_posts(hour_of(now),
                                    POST_MIN_PER_HOUR, POST_MAX_PER_HOUR,
                                    base, boost, variation)
         /\ current_hour_posts' = 0
         /\ posted_this_hour' = << >>
         /\ passes' = passes \cup {Pass(origin)}
         /\ events' = Append(events, Event("reset", ""))

\* the cycle in progress: what a planning pass resets and registers
PlanSnapshot ==
    [hourly_target |-> hourly_target,
     current_hour_posts |-> current_hour_posts,
     posted_this_hour |-> posted_this_hour, passes |-> passes,
     post_jobs |-> {job \in jobs : job.kind = "post"},
     events |-> Len(events)]

\* PostingScheduler.start and the task it creates
Start ==
    /\ jobs = {}
    /\ jobs' = { CronJob(name, next_fire(name, now)) : name \in RecurringJobs }
    /\ IF in_operating_hours(now)
       THEN HourlyPlanningBegin("startup")
       ELSE UNCHANGED <<hourly_target, current_hour_posts, posted_this_hour,
                        passes, events>>
    /\ obs' = [op |-> "hourly_planning_begin", origin |-> "startup",
               before |-> PlanSnapshot]
    /\ UNCHANGED <<now, storeVars, is_active, POST_MIN_PER_HOUR,
                   POST_MAX_PER_HOUR, handlers, steps>>

\* the clock reaches the next instant; jobs that are due run first, and a
\* planning pass lasts no longer than its four requests (the hot products
\* and three categories) can
Advance1 ==
    /\ jobs # {}
    /\ \A job \in jobs : job.run > now
    /\ \E t \in Instants :
          /\ t > now /\ t - now <= Watch
          /\ \A u \in Instants : u > now => t <= u
          /\ \A p \in passes : t - p.current_time <= 4 * timeout
          /\ now' = t
    /\ obs' = NoObs
    /\ UNCHANGED <<storeVars, schedVars, steps>>

\* a recurring job fires.  hourly_planning has max_instances = 1; the
\* cleanup raises at once and the backup only reads.
CronFire ==
    /\ \E job \in jobs :
          /\ job.kind = "cron" /\ job.run <= now
          /\ jobs' = add_job(jobs, CronJob(job.name, next_fire(job.name, now)))
          /\ IF job.name = "hourly_planning"
                /\ ~\E p \in passes : p.origin = "cron"
             THEN /\ HourlyPlanningBegin("cron")
                  /\ obs' = [op |-> "hourly_planning_begin",
                             origin |-> "cron", before |-> PlanSnapshot]
             ELSE /\ obs' = NoObs
                  /\ UNCHANGED <<hourly_target, current_hour_posts,
                                 posted_this_hour, passes, events>>
    /\ UNCHANGED <<now, storeVars, is_active, POST_MIN_PER_HOUR,
                   POST_MAX_PER_HOUR, handlers, steps>>

\* _fetch_products_for_hour returns; get_top_products is called with the
\* target as it stands now
PlanFetched ==
    /\ \E p \in passes, pool \in Pools :
          /\ p.stage = "fetch"
          /\ passes' = IF pool = << >> THEN passes \ {p}
                       ELSE (passes \ {p}) \cup
                            {[p EXCEPT !.stage = "select", !.products = pool,
                                       !.limit = hourly_target]}
          /\ obs' = IF pool = << >>
                    THEN [op |-> "hourly_planning_aborted",
                          origin |-> p.origin,
                          current_time |-> p.current_time]
                    ELSE NoObs
    /\ UNCHANGED <<now, storeVars, is_active, POST_MIN_PER_HOUR,
                   POST_MAX_PER_HOUR, hourly_target, current_hour_posts,
                   posted_this_hour, jobs, handlers, events, steps>>

\* get_top_products returns and _schedule_posts_for_hour registers the jobs
PlanSelected ==
    /\ \E p \in passes, db \in BOOLEAN :
          /\ p.stage = "select"
          /\ \E selected \in {get_top_products(p.products, p.limit,
                                                 CurStore, now, db)} :
                 /\ \E draws \in [1..Len(selected) -> DelayDraws] :
                       jobs' = schedule_posts_for_hour(jobs, selected,
                                                       p.current_time, draws)
                 /\ obs' = [op |-> "hourly_planning", limit |-> p.limit,
                            pool |-> { p.products[i].product_id :
                                         i \in 1..Len(p.products) },
                            denied |-> { p.products[i].product_id :
                                           i \in { k \in 1..Len(p.products) :
                                             ~can_post_product(
                                                 p.products[k].product_id,
                                                 FALSE, CurStore, now, db) } },
                            selected |-> [i \in 1..Len(selected) |->
                                            selected[i].product_id]]
          /\ passes' = passes \ {p}
    /\ UNCHANGED <<now, storeVars, is_active, POST_MIN_PER_HOUR,
                   POST_MAX_PER_HOUR, hourly_target, current_hour_posts,
                   posted_this_hour, handlers, events, steps>>

\* _execute_post testing the fired-set only
execute_post_ignores_pause(active, product_id, fired) ==
    \E i \in 1..Len(fired) : fired[i] = product_id

\* the two early returns of _execute_post: the bot is paused, or the product
\* is in posted_this_hour
execute_post_returns_early(active, product_id, fired) ==
    \/ ~active
    \/ \E i \in 1..Len(fired) : fired[i] = product_id

\* what a call of _execute_post finds and what it may touch
FireSnapshot ==
    [posted_this_hour |-> posted_this_hour,
     current_hour_posts |-> current_hour_posts,
     events |-> Len(events), handlers |-> handlers,
     history |-> Len(product_history), posted_products |-> posted_products]

\* _execute_post up to its first suspension.  Past the early returns it
\* awaits post_product, which returns at once when the bot is paused and
\* else calls the channel; kind names the publish: by a job or forced.
ExecutePost(product_id, hour, i, kind) ==
    IF execute_post_returns_early(is_active, product_id, posted_this_hour)
    THEN UNCHANGED <<handlers, events, posted_this_hour, current_hour_posts>>
    ELSE IF ~is_active
    THEN /\ posted_this_hour' = Append(posted_this_hour, product_id)
         /\ current_hour_posts' = current_hour_posts + 1
         /\ UNCHANGED <<handlers, events>>
    ELSE /\ handlers' = handlers \cup
               {[product_id |-> product_id, hour |-> hour, i |-> i,
                 started |-> now]}
         /\ events' = Append(events, Event(kind, product_id))
         /\ UNCHANGED <<posted_this_hour, current_hour_posts>>

\* a post_ job comes due.  More than misfire_grace_time (1 s) late, it is
\* dropped; else _execute_post runs up to the publish call.
JobFire ==
    /\ \E job \in jobs :
          /\ job.kind = "post" /\ job.run <= now
          /\ jobs' = jobs \ {job}
          /\ IF now - job.run > 1
             THEN UNCHANGED <<handlers, events, posted_this_hour,
                              current_hour_posts>>
             ELSE ExecutePost(job.product_id, job.hour, job.i, "publish")
          /\ obs' = [op |-> "execute_post", product_id |-> job.product_id,
                     forced |-> FALSE, missed |-> now - job.run > 1,
                     before |-> FireSnapshot]
    /\ UNCHANGED <<now, storeVars, is_active, POST_MIN_PER_HOUR,
                   POST_MAX_PER_HOUR, hourly_target, passes, steps>>

\* the publish call returns or raises; post_product scores and records a
\* product that was sent (the database answering) and swallows every
\* exception; _execute_post then notes the product as posted this hour
ExecEnd ==
    /\ \E h \in handlers, sent \in BOOLEAN :
          /\ handlers' = handlers \ {h}
          /\ obs' = [op |-> "post_product", product_id |-> h.product_id,
                     sent |-> sent, before |-> FireSnapshot]
          /\ IF sent
             THEN \E score \in {score_product(Catalog[h.product_id], CurStore,
                                              now, DbUp)} :
                     SetStore(record_post(Catalog[h.product_id], score,
                                          CurStore, now, TRUE))
             ELSE UNCHANGED storeVars
          /\ posted_this_hour' = Append(posted_this_hour, h.product_id)
    /\ current_hour_posts' = current_hour_posts + 1
    /\ UNCHANGED <<now, is_active, POST_MIN_PER_HOUR, POST_MAX_PER_HOUR,
                   hourly_target, jobs, passes, events, steps>>

\* adjust_schedule bringing the target of the hour within the new bounds
adjust_schedule_retargeting(new_min, new_max) ==
    /\ POST_MIN_PER_HOUR' = new_min
    /\ POST_MAX_PER_HOUR' = new_max
    /\ hourly_target' = MaxI(new_min, MinI(hourly_target, new_max))
    /\ UNCHANGED <<current_hour_posts, posted_this_hour, jobs, passes>>

\* adjust_schedule: two assignments to the configuration
adjust_schedule(new_min, new_max) ==
    /\ POST_MIN_PER_HOUR' = new_min
    /\ POST_MAX_PER_HOUR' = new_max
    /\ UNCHANGED <<hourly_target, current_hour_posts, posted_this_hour, jobs,
                   passes>>

AdjustSchedule ==
    /\ jobs # {} /\ steps < MaxOps
    /\ \E a \in ScheduleArgs :
          /\ <<POST_MIN_PER_HOUR, POST_MAX_PER_HOUR>> # a
          /\ adjust_schedule(a[1], a[2])
          /\ obs' = [op |-> "adjust_schedule", new_min |-> a[1],
                     new_max |-> a[2], before |-> PlanSnapshot]
    /\ steps' = steps + 1
    /\ UNCHANGED <<now, storeVars, is_active, handlers, events>>

\* force_post_now(product): _execute_post called at once, outside any job
ForcePostNow ==
    /\ jobs # {} /\ steps < MaxOps
    /\ \E id \in Ids :
          /\ ExecutePost(id, 0 - 1, 0, "forced")
          /\ obs' = [op |-> "execute_post", product_id |-> id,
                     forced |-> TRUE, missed |-> FALSE,
                     before |-> FireSnapshot]
    /\ steps' = steps + 1
    /\ UNCHANGED <<now, storeVars, is_active, POST_MIN_PER_HOUR,
                   POST_MAX_PER_HOUR, hourly_target, jobs, passes>>

\* the pause button, /pausar and /retomar
TogglePause ==
    /\ jobs # {} /\ steps < MaxOps
    /\ is_active' = ~is_active
    /\ steps' = steps + 1
    /\ obs' = NoObs
    /\ UNCHANGED <<now, storeVars, POST_MIN_PER_HOUR, POST_MAX_PER_HOUR,
                   hourly_target, current_hour_posts, posted_this_hour, jobs,
                   passes, handlers, events>>

EmergencyStop ==
    /\ jobs # {} /\ steps < MaxOps
    /\ jobs' = {job \in jobs : job.kind # "post"}
    /\ events' = Append(events, Event("stop", ""))
    /\ steps' = steps + 1
    /\ obs' = [op |-> "emergency_stop"]
    /\ UNCHANGED <<now, storeVars, is_active, POST_MIN_PER_HOUR,
                   POST_MAX_PER_HOUR, hourly_target, current_hour_posts,
                   posted_this_hour, passes, handlers>>

get_scheduler_status ==
    [scheduler_running |-> jobs # {}, total_jobs |-> Cardinality(jobs),
     current_hour_posts |-> current_hour_posts,
     hourly_target |-> hourly_target]

\* the status asked for once emergency_stop has returned
GetStatus ==
    /\ obs.op = "emergency_stop"
    /\ obs' = [op |-> "get_scheduler_status",
               after_stop |-> obs.op = "emergency_stop",
               status |-> get_scheduler_status]
    /\ UNCHANGED <<now, storeVars, schedVars, steps>>

\* the process configured with POST_MIN_PER_HOUR=1 and POST_MAX_PER_HOUR=2 in
\* its environment, so that the target is smaller than the pool
InitSched ==
    /\ now \in StartTimes
    /\ init_db
    /\ POST_MIN_PER_HOUR = 1
    /\ POST_MAX_PER_HOUR = 2
    /\ scheduler_init
    /\ obs = NoObs
    /\ steps = 0

NextSched ==
    \/ Start \/ Advance1 \/ CronFire \/ PlanFetched \/ PlanSelected
    \/ JobFire \/ ExecEnd \/ AdjustSchedule \/ TogglePause
    \/ EmergencyStop \/ GetStatus

SpecSched == InitSched /\ [][NextSched]_vars

\* planning on its own: the start, the clock, the recurring triggers and
\* the fetch of each pass, with the administrator's commands.  The event
\* loop runs every job that is due and every coroutine whose await has
\* returned, requests end within their timeout, and the clock goes on;
\* nothing obliges an administrator to act.
NextLive ==
    \/ Start \/ Advance1 \/ CronFire \/ PlanFetched \/ AdjustSchedule
    \/ TogglePause \/ EmergencyStop

SpecLive ==
    /\ InitSched /\ [][NextLive]_vars
    /\ WF_vars(Start) /\ WF_vars(Advance1) /\ WF_vars(CronFire)
    /\ WF_vars(PlanFetched)

\* most calls of _schedule_posts_for_hour in one behaviour
MaxPasses == 2

\* times at which a pass reaches _schedule_posts_for_hour: twice in the
\* hour of 11, once at the top of the next
PassTimes == {Clock(11, 30, 0), Clock(11, 45, 0), Clock(12, 0, 0)}

\* what get_top_products hands over: products of distinct ids, best first
Selections ==
    {<< >>, <<Catalog["p1"]>>, <<Catalog["p2"]>>,
     <<Catalog["p1"], Catalog["p2"]>>, <<Catalog["p2"], Catalog["p1"]>>}

\* the ends of the three ranges: randint(0, 59), randint(0, 59),
\* randint(-30, 30)
JobDraws ==
    {<<0, 0, 0 - 30>>, <<0, 0, 30>>, <<59, 59, 0 - 30>>, <<59, 59, 30>>}

\* one call of _schedule_posts_for_hour(products, current_time)
SchedulePosts ==
    /\ steps < MaxPasses
    /\ \E current_time \in PassTimes, products \in Selections :
          /\ current_time >= now
          /\ now' = current_time
          /\ \E draws \in [1..Len(products) -> JobDraws] :
                /\ jobs' = schedule_posts_for_hour(jobs, products,
                                                   current_time, draws)
                /\ obs' = [op |-> "schedule_posts_for_hour",
                           products |-> products, draws |-> draws,
                           before |-> jobs]
    /\ steps' = steps + 1
    /\ UNCHANGED <<storeVars, is_active, POST_MIN_PER_HOUR,
                   POST_MAX_PER_HOUR, hourly_target, current_hour_posts,
                   posted_this_hour, passes, handlers, events>>

\* a post job comes due and leaves the job store when the clock has
\* reached its run time
JobDue ==
    /\ \E job \in jobs : job.run <= now /\ jobs' = jobs \ {job}
    /\ obs' = NoObs
    /\ UNCHANGED <<now, storeVars, is_active, POST_MIN_PER_HOUR,
                   POST_MAX_PER_HOUR, hourly_target, current_hour_posts,
                   posted_this_hour, passes, handlers, events, steps>>

SpecJobs == InitSched /\ [][SchedulePosts \/ JobDue]_vars

\* the half hour after the start, with force_post_now called by an
\* administrator: the first planning pass, its jobs and their handlers
NextForce ==
    \/ Start \/ PlanFetched \/ PlanSelected \/ JobFire \/ ExecEnd
    \/ ForcePostNow

SpecForce == InitSched /\ [][NextForce]_vars

\* C1: scheduled jobs invoke the channel publish at most once per product id
\* per hourly cycle: between two publish calls for the same id there is a
\* reset of the fired-set.
C1_OncePerCycle ==
    \A i \in 1..Len(events), j \in 1..Len(events) :
        (/\ i < j
         /\ events[i].kind = "publish" /\ events[j].kind = "publish"
         /\ events[i].product_id = events[j].product_id)
        => \E k \in (i + 1)..(j - 1) : events[k].kind = "reset"

\* C3: a planning pass selects at most as many candidates as the target it
\* passed to get_top_products, and none for which can_post_product answered
\* False during the selection.
C3_SelectionWithinTarget ==
    obs.op = "hourly_planning" =>
        /\ Len(obs.selected) <= obs.limit
        /\ \A i \in 1..Len(obs.selected) : obs.selected[i] \notin obs.denied

\* a pool of two with a target of 1, one candidate in its cooldown: the
\* other is selected and fills the target
C3_Witness ==
    /\ obs.op = "hourly_planning"
    /\ obs.limit = 1 /\ Len(obs.selected) = 1
    /\ Cardinality(obs.pool) = 2
    /\ obs.denied = {"p1"} /\ obs.selected = <<"p2">>

\* C9: the job count get_scheduler_status reports right after emergency_stop
\* has returned is 0.
C9_NoJobsAfterStop ==
    (obs.op = "get_scheduler_status" /\ obs.after_stop) =>
        obs.status.total_jobs = 0

\* C10: once emergency_stop has returned, no candidate of the cycle is
\* published by a timer that had not begun firing: no publish call follows
\* the stop before the next cycle resets the fired-set.
C10_NoPublishAfterStop ==
    \A i \in 1..Len(events), j \in 1..Len(events) :
        (i < j /\ events[i].kind = "stop" /\ events[j].kind = "publish")
        => \E k \in (i + 1)..(j - 1) : events[k].kind = "reset"

\* C11: a job whose handler runs while the bot is paused makes no publish
\* call, adds nothing to posted_this_hour, leaves current_hour_posts as it
\* was and writes neither a posted_products row nor a history event.
C11_PausedHandlerSkips ==
    (obs.op = "execute_post" /\ ~obs.forced /\ ~obs.missed /\ ~is_active) =>
        /\ Len(events) = obs.before.events
        /\ handlers = obs.before.handlers
        /\ posted_this_hour = obs.before.posted_this_hour
        /\ current_hour_posts = obs.before.current_hour_posts
        /\ posted_products = obs.before.posted_products
        /\ Len(product_history) = obs.before.history

\* a job for a product not yet posted this hour comes due, on time, while
\* the bot is paused
C11_Witness ==
    /\ obs.op = "execute_post" /\ ~obs.forced /\ ~obs.missed /\ ~is_active
    /\ ~\E i \in 1..Len(posted_this_hour) :
          posted_this_hour[i] = obs.product_id
    /\ ~posted_products[obs.product_id].exists

\* C12: when the publish call fails, the handler leaves posted_this_hour,
\* current_hour_posts and the store as they were; the id is added, the
\* counter incremented and record_post called only after a publish that
\* succeeded.
C12_FailedPublishChangesNothing ==
    (obs.op = "post_product" /\ ~obs.sent) =>
        /\ posted_this_hour = obs.before.posted_this_hour
        /\ current_hour_posts = obs.before.current_hour_posts
        /\ posted_products = obs.before.posted_products
        /\ Len(product_history) = obs.before.history

\* C13: force_post_now ignores the fired-set: called with the bot active for
\* a product already in posted_this_hour, it makes the publish call.
C13_ForcePublishesFiredId ==
    (/\ obs.op = "execute_post" /\ obs.forced /\ is_active
     /\ \E i \in 1..Len(obs.before.posted_this_hour) :
           obs.before.posted_this_hour[i] = obs.product_id)
    => /\ Len(events) = obs.before.events + 1
       /\ events[Len(events)] = Event("forced", obs.product_id)

\* C14: adjust_schedule leaves the cycle in progress as it was (target,
\* counter, fired-set, registered post jobs, the pass under way), and the
\* target the next planning pass draws lies within the bounds it set.
C14_AdjustTakesEffectNextCycle ==
    /\ obs.op = "adjust_schedule" =>
          /\ POST_MIN_PER_HOUR = obs.new_min
          /\ POST_MAX_PER_HOUR = obs.new_max
          /\ hourly_target = obs.before.hourly_target
          /\ current_hour_posts = obs.before.current_hour_posts
          /\ posted_this_hour = obs.before.posted_this_hour
          /\ {job \in jobs : job.kind = "post"} = obs.before.post_jobs
          /\ passes = obs.before.passes
    /\ (obs.op = "hourly_planning_begin" /\ Len(events) > obs.before.events)
          => /\ POST_MIN_PER_HOUR <= hourly_target
             /\ hourly_target <= POST_MAX_PER_HOUR

\* the bounds were lowered to 1..1 while the target of the hour was 2; the
\* hour ended with that target, and the next pass drew 1
C14_Witness ==
    /\ obs.op = "hourly_planning_begin" /\ Len(events) > obs.before.events
    /\ steps = 1 /\ POST_MAX_PER_HOUR = 1
    /\ obs.before.hourly_target = 2 /\ hourly_target = 1

\* C15: a planning pass begun, by the hourly trigger or at startup, in an
\* hour h with h < start_hour or h >= end_hour fetches nothing, registers no
\* post job and leaves hourly_target, current_hour_posts and
\* posted_this_hour as they were.
C15_NoPlanningOutsideWindow ==
    (/\ obs.op = "hourly_planning_begin"
     /\ (hour_of(now) < start_hour \/ hour_of(now) >= end_hour))
    => /\ passes = obs.before.passes
       /\ {job \in jobs : job.kind = "post"} = obs.before.post_jobs
       /\ hourly_target = obs.before.hourly_target
       /\ current_hour_posts = obs.before.current_hour_posts
       /\ posted_this_hour = obs.before.posted_this_hour
       /\ Len(events) = obs.before.events

\* the hourly trigger fires at 22:00 while the cycle of 21h has a post job
\* registered and a product in its fired-set
C15_Witness ==
    /\ obs.op = "hourly_planning_begin" /\ obs.origin = "cron"
    /\ hour_of(now) = end_hour
    /\ hourly_target > 0 /\ posted_this_hour # << >>
    /\ \E job \in jobs : job.kind = "post"

\* C23: a planning pass that ends without scheduling anything leaves the
\* hourly trigger registered, and when the next hour is an operating hour
\* its boundary starts a fresh pass: a target drawn within the bounds, the
\* counter at 0 and the fired-set empty.
C23_FailedPassDoesNotStick ==
    /\ [](jobs # {} =>
            \E job \in jobs :
               /\ job.kind = "cron" /\ job.name = "hourly_planning"
               /\ job.run <= hour_start(now) + Hour)
    /\ (/\ obs.op = "hourly_planning_aborted"
        /\ hour_of(now) = hour_of(obs.current_time)
        /\ in_operating_hours(now + Hour)
        /\ hour_start(now) + Hour \in Instants)
       ~> (/\ obs.op = "hourly_planning_begin" /\ obs.origin = "cron"
           /\ Len(events) = obs.before.events + 1
           /\ events[Len(events)] = Event("reset", "")
           /\ POST_MIN_PER_HOUR <= hourly_target
           /\ hourly_target <= POST_MAX_PER_HOUR
           /\ current_hour_posts = 0 /\ posted_this_hour = << >>
           /\ \E p \in passes : p.stage = "fetch" /\ p.current_time = now)

\* the pass begun at the start, at 11:30, found no product, and the trigger
\* of 12:00 has begun the pass of the next hour
C23_Witness ==
    /\ obs.op = "hourly_planning_begin" /\ obs.origin = "cron"
    /\ now = Clock(12, 0, 0) /\ jobs = { job \in jobs : job.kind = "cron" }
    /\ obs.before.hourly_target > 0 /\ obs.before.passes = {}
    /\ \E p \in passes : p.stage = "fetch" /\ p.current_time = now

\* C25: in every reachable state current_hour_posts, the number of posts the
\* jobs of the hour have made, is at most hourly_target.
C25_CounterWithinTarget == current_hour_posts <= hourly_target

\* C26: jobs never publish the same product id twice less than 48 hours
\* apart unless its row met the high-performer override when it was selected
\* again.  Every behaviour here lasts less than an hour and records no
\* click, so no row ever has clicks > 50: no id is published twice.
C26_NoRepeatWithin48h ==
    \A i \in 1..Len(events), j \in 1..Len(events) :
        (/\ i < j
         /\ events[i].kind = "publish" /\ events[j].kind = "publish"
         /\ events[i].product_id = events[j].product_id)
        => /\ posted_products[events[i].product_id].exists
           /\ posted_products[events[i].product_id].clicks > 50

\* C27: a call of _schedule_posts_for_hour with n products leaves exactly
\* one job for each key (product_id, hour, index), n in all, leaves the jobs
\* of every other key as they were, and the job store never holds two jobs
\* under one key.
C27_OneJobPerKey ==
    /\ \A a \in jobs, b \in jobs :
          (/\ a.product_id = b.product_id /\ a.hour = b.hour /\ a.i = b.i
           /\ a.kind = b.kind) => a = b
    /\ obs.op = "schedule_posts_for_hour" =>
          LET n == Len(obs.products)
              keyed(job) == \E i \in 1..n :
                               /\ job.kind = "post"
                               /\ job.product_id = obs.products[i].product_id
                               /\ job.hour = hour_of(now) /\ job.i = i - 1
          IN  /\ Cardinality({job \in jobs : keyed(job)}) = n
              /\ {job \in jobs : ~keyed(job)}
                    = {job \in obs.before : ~keyed(job)}

\* a second call in the same hour replaced a pending job by one with
\* another run time
C27_Witness ==
    /\ obs.op = "schedule_posts_for_hour" /\ Len(obs.products) = 2
    /\ \E old \in obs.before, new \in jobs :
          /\ old \notin jobs /\ old.run # new.run
          /\ old.product_id = new.product_id /\ old.hour = new.hour
          /\ old.i = new.i

\* C28: every job a call registers runs at hour_start + max(0, offset +
\* jitter), offset = 60 * minutes + seconds in 0..3599 and jitter in
\* -30..30: not before the top of the hour, not later than 3629 s after it.
C28_FireTimeWithinHour ==
    obs.op = "schedule_posts_for_hour" =>
        \A i \in 1..Len(obs.products) :
           LET offset == obs.draws[i][1] * 60 + obs.draws[i][2]
               jitter == obs.draws[i][3]
               delay == IF offset + jitter < 0 THEN 0 ELSE offset + jitter
               top == now - (now % Hour)
           IN  /\ 0 <= offset /\ offset <= 3599
               /\ 0 - 30 <= jitter /\ jitter <= 30
               /\ \E job \in jobs :
                     /\ job.kind = "post" /\ job.i = i - 1
                     /\ job.product_id = obs.products[i].product_id
                     /\ job.hour = hour_of(now)
                     /\ job.run = top + delay
                     /\ top <= job.run /\ job.run <= top + 3629

\* a call at 11:30 registers one job the jitter would put before 11:00:00
\* and one at the latest time there is, 12:00:29
C28_Witness ==
    /\ obs.op = "schedule_posts_for_hour" /\ now = Clock(11, 30, 0)
    /\ Len(obs.products) = 2
    /\ obs.draws[1] = <<0, 0, 0 - 30>> /\ obs.draws[2] = <<59, 59, 30>>
    /\ \E a \in jobs, b \in jobs :
          a.i = 0 /\ a.run = Clock(11, 0, 0) /\ b.i = 1
          /\ b.run = Clock(12, 0, 29)

\* C29: a call of _schedule_posts_for_hour in hour H + 1 neither replaces
\* nor removes a job registered for hour H that is still pending.
C29_OtherHoursUntouched ==
    obs.op = "schedule_posts_for_hour" =>
        \A job \in obs.before :
           (job.kind = "post" /\ job.hour # hour_of(now)) => job \in jobs

\* the job of 11h for p1 at index 0 is pending at 12:00 when the pass of
\* 12h registers p1 at index 0
C29_Witness ==
    /\ obs.op = "schedule_posts_for_hour" /\ now = Clock(12, 0, 0)
    /\ \E old \in obs.before, new \in jobs :
          /\ old.hour = 11 /\ new.hour = 12 /\ old \in jobs
          /\ old.product_id = "p1" /\ new.product_id = "p1"
          /\ old.i = 0 /\ new.i = 0 /\ old.run > now

-----------------------------------------------------------------------------
(* Candidate pool: PostingScheduler._fetch_products_for_hour *)

\* a product as the marketplace returns it; a product without the key
\* product_id reads as '' in product.get('product_id', '')
Item(product_id, product_title) ==
    [product_id |-> product_id, product_title |-> product_title]

\* the outcome of one call of the marketplace: a list, or an exception
Returned(products) == [raised |-> FALSE, products |-> products]

SearchRaised == [raised |-> TRUE, products |-> << >>]

\* outcomes of get_hot_products(limit=30)
HotAnswers ==
    {SearchRaised, Returned(<< >>),
     Returned(<<Item("p1", "hot"), Item("p2", "hot")>>),
     Returned(<<Item("p1", "hot"), Item("", "hot"), Item("p1", "hot again")>>)}

\* outcomes of search_products(keywords=category, min_discount=30, limit=20)
CategoryAnswers ==
    {SearchRaised, Returned(<< >>),
     Returned(<<Item("p2", "category"), Item("p3", "category")>>),
     Returned(<<Item("", "category"), Item("p1", "category")>>)}

\* all_products after the loop: the hot products, then the products of each
\* category whose search did not raise
all_products(hot, categories) ==
    hot.products \o categories[1].products \o categories[2].products
                 \o categories[3].products

\* the dict filled with the last product of each id, at the place of the first
unique_products_last(products) ==
    LET keep == {i \in 1..Len(products) :
                    /\ products[i].product_id # ""
                    /\ \A j \in 1..(i - 1) :
                          products[j].product_id # products[i].product_id}
        at(k) == CHOOSE i \in keep : Cardinality({j \in keep : j <= i}) = k
        last(i) == CHOOSE m \in 1..Len(products) :
                      /\ products[m].product_id = products[i].product_id
                      /\ \A j \in (m + 1)..Len(products) :
                            products[j].product_id # products[i].product_id
    IN  [k \in 1..Cardinality(keep) |-> products[last(at(k))]]

\* list(unique_products.values()): a product enters the dict when its id is
\* truthy and not yet a key; a dict keeps its keys in insertion order
unique_products(products) ==
    LET keep == {i \in 1..Len(products) :
                    /\ products[i].product_id # ""
                    /\ \A j \in 1..(i - 1) :
                          products[j].product_id # products[i].product_id}
        at(k) == CHOOSE i \in keep : Cardinality({j \in keep : j <= i}) = k
    IN  [k \in 1..Cardinality(keep) |-> products[at(k)]]

\* an exception of get_hot_products reaches the outer except, which returns
\* []; an exception of one search_products is logged and the loop continues
fetch_products_for_hour(hot, categories) ==
    IF hot.raised
    THEN << >>
    ELSE unique_products(all_products(hot, categories))

FetchProducts ==
    /\ \E hot \in HotAnswers, categories \in [1..3 -> CategoryAnswers] :
          obs' = [op |-> "fetch_products_for_hour", hot |-> hot,
                  categories |-> categories,
                  result |-> fetch_products_for_hour(hot, categories)]
    /\ UNCHANGED <<now, storeVars, schedVars, steps>>

\* _get_fallback_products: the example products written in the source
example_products ==
    <<Item("1005001234567890", "example"),
      Item("1005002345678901", "example")>>

\* get_hot_products: the products of the answer when there are any, else
\* the example products
get_hot_products(market) ==
    IF market.raised \/ market.products = << >>
    THEN Returned(example_products)
    ELSE Returned(market.products)

\* _fetch_products_for_hour with get_hot_products followed into the
\* marketplace, whose smartmatch request ends in an exception or a status
\* other than 200, in no product, or in products
FetchFromMarket ==
    /\ \E market \in {SearchRaised, Returned(<< >>),
                       Returned(<<Item("p1", "hot"), Item("p2", "hot")>>)},
          categories \in [1..3 -> CategoryAnswers] :
          obs' = [op |-> "fetch_from_market", market |-> market,
                  categories |-> categories,
                  result |-> fetch_products_for_hour(get_hot_products(market),
                                                     categories)]
    /\ UNCHANGED <<now, storeVars, schedVars, steps>>

SpecFetch == InitSched /\ [][FetchProducts \/ FetchFromMarket]_vars

\* C30: the pool _fetch_products_for_hour returns has no two products of one
\* id and no product of empty id; when the hot search answered, the pool holds
\* for every non-empty id fetched the first product of that id in fetch order
\* (hot products, then the categories in order) and nothing else, so a
\* category search that raised takes away its own products only.
C30_PoolIsDeduplicated ==
    obs.op = "fetch_products_for_hour" =>
        LET r == obs.result
            sources == <<obs.hot, obs.categories[1], obs.categories[2],
                         obs.categories[3]>>
            occ == UNION {{<<s, k>> : k \in {n \in 1..Len(sources[s].products) :
                                 /\ ~sources[s].raised
                                 /\ sources[s].products[n].product_id # ""}} :
                          s \in 1..4}
            item(o) == sources[o[1]].products[o[2]]
            earlier(f, g) == f[1] < g[1] \/ (f[1] = g[1] /\ f[2] <= g[2])
            first(o) == CHOOSE f \in occ :
                           /\ item(f).product_id = item(o).product_id
                           /\ \A g \in occ :
                                 item(g).product_id = item(o).product_id
                                    => earlier(f, g)
        IN  /\ \A i \in 1..Len(r), j \in 1..Len(r) :
                  i # j => r[i].product_id # r[j].product_id
            /\ \A i \in 1..Len(r) : r[i].product_id # ""
            /\ ~obs.hot.raised =>
                  /\ \A o \in occ : \E i \in 1..Len(r) : r[i] = item(first(o))
                  /\ \A i \in 1..Len(r) : \E o \in occ : r[i] = item(first(o))

\* the hot search returns p1 twice and a product without id, the first
\* category returns p1 again, the second raises and the third returns p2 and
\* p3: the pool is the hot p1 followed by the p2 and p3 of the third category
C30_Witness ==
    /\ obs.op = "fetch_products_for_hour"
    /\ obs.hot = Returned(<<Item("p1", "hot"), Item("", "hot"),
                            Item("p1", "hot again")>>)
    /\ obs.categories[1] = Returned(<<Item("", "category"),
                                      Item("p1", "category")>>)
    /\ obs.categories[2].raised
    /\ obs.categories[3] = Returned(<<Item("p2", "category"),
                                      Item("p3", "category")>>)
    /\ obs.result = <<Item("p1", "hot"), Item("p2", "category"),
                      Item("p3", "category")>>

-----------------------------------------------------------------------------
(* Selection: ProductAI.get_top_products applied to pools and targets *)

\* a second product of id p2 with the fields of p1: never posted, the two
\* have the same score
Twin ==
    Candidate("p2", {"smartphone"}, Num(55), Num(46), Num(700), Num(6000),
              Num(9))

\* pools as _fetch_products_for_hour returns them: no id twice, none empty
SelectPools ==
    {<< >>, <<Catalog["p1"]>>, <<Catalog["p2"]>>,
     <<Catalog["p1"], Catalog["p2"]>>, <<Catalog["p2"], Catalog["p1"]>>,
     <<Catalog["p1"], Twin>>, <<Twin, Catalog["p1"]>>}

\* get_top_products(products, limit) is called with a target of none, fewer
\* than the pool, the pool or more than the pool; obs keeps, beside the
\* result, what can_post_product and score_product answer for each product
SelectCall ==
    /\ \E products \in SelectPools, limit \in 0..3, db \in BOOLEAN :
          obs' = [op |-> "get_top_products", products |-> products,
                  limit |-> limit, db |-> db,
                  can_post |-> [i \in 1..Len(products) |->
                                  can_post_product(products[i].product_id,
                                                   FALSE, CurStore, now, db)],
                  score |-> [i \in 1..Len(products) |->
                               score_product(products[i], CurStore, now,
                                             IF db THEN DbUp ELSE DbDown)],
                  result |-> get_top_products(products, limit, CurStore, now,
                                              db)]
    /\ UNCHANGED <<now, storeVars, schedVars, steps>>

SpecSelect == InitStore /\ [][Advance \/ SelectCall]_vars

\* C31: get_top_products returns min(limit, survivors) products, each a
\* product of the pool for which can_post_product answered True, none twice,
\* in non-increasing order of score; no survivor left out has a higher score
\* than one returned, and of two survivors of equal score the one earlier in
\* the pool comes first, so that the result is fixed by pool and store.
C31_SelectionIsTopOfRanking ==
    obs.op = "get_top_products" =>
        LET r == obs.result
            pool == obs.products
            survivors == {i \in 1..Len(pool) : obs.can_post[i]}
            at(k) == CHOOSE i \in survivors : pool[i] = r[k]
            chosen == {at(k) : k \in 1..Len(r)}
        IN  /\ Len(r) = MinI(obs.limit, Cardinality(survivors))
            /\ \A k \in 1..Len(r) : \E i \in survivors : pool[i] = r[k]
            /\ Cardinality(chosen) = Len(r)
            /\ \A k \in 1..(Len(r) - 1) :
                  \/ obs.score[at(k)] > obs.score[at(k + 1)]
                  \/ /\ obs.score[at(k)] = obs.score[at(k + 1)]
                     /\ at(k) < at(k + 1)
            /\ \A i \in survivors \ chosen, j \in chosen :
                  \/ obs.score[i] < obs.score[j]
                  \/ obs.score[i] = obs.score[j] /\ j < i

\* the weak product comes first in the pool, both may be posted and the
\* target is 1: the better product is the one selected
C31_Witness ==
    /\ obs.op = "get_top_products" /\ obs.limit = 1
    /\ obs.products = <<Catalog["p2"], Catalog["p1"]>>
    /\ obs.can_post = <<TRUE, TRUE>>
    /\ obs.score[2] > obs.score[1]
    /\ obs.result = <<Catalog["p1"]>>

-----------------------------------------------------------------------------
(* Trending sub-score: ProductAI._calculate_trending_score over the store *)

\* _calculate_trending_score(product) is called
TrendingCall ==
    /\ \E id \in Ids, db \in BOOLEAN :
          obs' = [op |-> "calculate_trending_score", product_id |-> id,
                  db |-> db,
                  result |-> calculate_trending_score(Catalog[id], CurStore,
                                                      now, db)]
    /\ UNCHANGED <<now, storeVars, schedVars, steps>>

\* clicks are recorded and scored as the hours pass
SpecTrend == InitStore /\ [][Advance \/ RecordClick \/ TrendingCall]_vars

\* C32: _calculate_trending_score returns min(trend_score + click_velocity,
\* 100) when trending_products has a row for the id, else 10 points for each
\* click event of the id in the 24 hours before the call, at most 100, and
\* 0 when there is none or the lookup raises; it lies in [0, 100].
C32_TrendingScore ==
    obs.op = "calculate_trending_score" =>
        LET row == trending_products[obs.product_id]
            clicks == Cardinality({i \in 1..Len(product_history) :
                         /\ product_history[i].product_id = obs.product_id
                         /\ product_history[i].action = "click"
                         /\ product_history[i].timestamp > now - 24 * Hour})
        IN  /\ 0 <= obs.result /\ obs.result <= Pts(100)
            /\ obs.result =
                  IF ~obs.db THEN 0
                  ELSE IF row.exists
                       THEN MinI(Pts(row.trend_score)
                                 + Pts(row.click_velocity), Pts(100))
                  ELSE Pts(MinI(10 * clicks, 100))

\* C33: over record_post and record_click calls for one product id, the
\* clicks of its posted_products row never decrease, and they equal the
\* number of clicks recorded since the row was first written.
C33_ClicksSurviveReposts ==
    /\ \A id \in Ids :
          posted_products[id].exists =>
             \E first \in 1..Len(product_history) :
                /\ product_history[first].product_id = id
                /\ product_history[first].action = "post"
                /\ \A i \in 1..(first - 1) :
                      ~(/\ product_history[i].product_id = id
                        /\ product_history[i].action = "post")
                /\ posted_products[id].clicks =
                      Cardinality({i \in (first + 1)..Len(product_history) :
                         /\ product_history[i].product_id = id
                         /\ product_history[i].action = "click"})
    /\ (/\ obs.op \in {"record_post", "record_click"}
        /\ obs.before.posted[obs.id].exists)
          => posted_products[obs.id].clicks
                >= obs.before.posted[obs.id].clicks

\* C34: every job a call of _schedule_posts_for_hour registers has a run
\* time not earlier than current_time, the moment the planning pass began.
C34_NoFireTimeInThePast ==
    obs.op = "schedule_posts_for_hour" =>
        \A job \in jobs :
           (/\ job.kind = "post" /\ job.hour = hour_of(now)
            /\ \E i \in 1..Len(obs.products) :
                  /\ obs.products[i].product_id = job.product_id
                  /\ job.i = i - 1)
              => job.run >= now

\* C35: can_post_product(id, force_post = True) answers True whatever the
\* store holds.
C35_ForcePostAlwaysAllowed ==
    (obs.op = "can_post_product" /\ obs.force_post) => obs.result

\* C36: when the lookup of can_post_product raises, the answer is True and
\* no exception leaves it: with the database down get_top_products treats
\* every product of the pool as eligible and returns min(limit, pool size)
\* of them.
C36_LookupFailureAllowsAll ==
    (obs.op = "get_top_products" /\ ~obs.db) =>
        /\ \A i \in 1..Len(obs.products) : obs.can_post[i]
        /\ Len(obs.result) = MinI(obs.limit, Len(obs.products))
        /\ \A k \in 1..Len(obs.result) :
              \E i \in 1..Len(obs.products) : obs.products[i] = obs.result[k]

\* p1 was posted less than 48 hours ago and would be refused by a database
\* that answers; the database is down and p1 is selected
C36_Witness ==
    /\ obs.op = "get_top_products" /\ ~obs.db
    /\ obs.products = <<Catalog["p1"]>> /\ obs.limit = 1
    /\ ~can_post_product("p1", FALSE, CurStore, now, TRUE)
    /\ obs.result = <<Catalog["p1"]>>

-----------------------------------------------------------------------------
(* Administration: the handlers of TelegramBot and adjust_schedule *)

\* most products published on an administrator's order in one behaviour
MaxPublishes == 1

\* who sends a message: the user whose id is ADMIN_USER_ID, or another
Users == {"admin", "other"}

\* the test every handler begins with, read as if it always passed
is_admin_anyone(user) == TRUE

\* not (message.from_user.id != self.admin_id)
is_admin(user) == user = "admin"

\* one word of a message: int(word) gives val, or raises ValueError
IntWord(n) == [int |-> TRUE, val |-> n]

Word == [int |-> FALSE, val |-> 0]

\* message.text.split()[1:] of a /frequencia message
FrequencyTexts ==
    {<< >>, <<IntWord(20)>>, <<IntWord(1), IntWord(5), IntWord(9)>>}
    \cup { <<a, b>> : a \in {Word, IntWord(0), IntWord(1), IntWord(5), IntWord(51)},
                      b \in {Word, IntWord(0), IntWord(1), IntWord(5), IntWord(51)} }

\* what the scheduler and the channel see of the bot
AdminSnapshot ==
    [is_active |-> is_active, POST_MIN_PER_HOUR |-> POST_MIN_PER_HOUR,
     POST_MAX_PER_HOUR |-> POST_MAX_PER_HOUR, events |-> events,
     store |-> CurStore, hourly_target |-> hourly_target,
     current_hour_posts |-> current_hour_posts,
     posted_this_hour |-> posted_this_hour, jobs |-> jobs]

Message(handler, user, text, data) ==
    [op |-> "message", handler |-> handler, user |-> user, text |-> text,
     data |-> data, before |-> AdminSnapshot]

\* TelegramBot.post_product called by a handler: nothing when the bot is
\* paused; else the product is sent to the channel, scored and recorded.
\* sent = FALSE: the send raises, the handler of post_product logs it.
post_product(product_id, sent, db) ==
    IF is_active /\ sent
    THEN /\ events' = Append(events, Event("command", product_id))
         /\ \E score \in {score_product(Catalog[product_id], CurStore, now,
                                        IF db THEN DbUp ELSE DbDown)} :
               SetStore(record_post(Catalog[product_id], score, CurStore,
                                    now, db))
    ELSE UNCHANGED <<events, storeVars>>

\* /pausar
PauseCommand ==
    /\ \E user \in Users :
          /\ is_active' = IF is_admin(user) THEN FALSE ELSE is_active
          /\ obs' = Message("pausar", user, << >>, "")
    /\ UNCHANGED <<now, storeVars, POST_MIN_PER_HOUR, POST_MAX_PER_HOUR,
                   hourly_target, current_hour_posts, posted_this_hour, jobs,
                   passes, handlers, events, steps>>

\* /retomar
ResumeCommand ==
    /\ \E user \in Users :
          /\ is_active' = IF is_admin(user) THEN TRUE ELSE is_active
          /\ obs' = Message("retomar", user, << >>, "")
    /\ UNCHANGED <<now, storeVars, POST_MIN_PER_HOUR, POST_MAX_PER_HOUR,
                   hourly_target, current_hour_posts, posted_this_hour, jobs,
                   passes, handlers, events, steps>>

\* /frequencia: the usage message for other than two words, ValueError for
\* a word that is no integer, the refusal of values out of range; else the
\* two assignments
FrequencyMessage ==
    /\ \E user \in Users, text \in FrequencyTexts :
          /\ IF /\ is_admin(user) /\ Len(text) = 2
                /\ text[1].int /\ text[2].int
                /\ ~(\/ text[1].val < 1 \/ text[2].val < text[1].val
                     \/ text[2].val > 50)
             THEN frequency_command(text[1].val, text[2].val)
             ELSE UNCHANGED <<POST_MIN_PER_HOUR, POST_MAX_PER_HOUR>>
          /\ obs' = Message("frequencia", user, text, "")
    /\ UNCHANGED <<now, storeVars, is_active, hourly_target,
                   current_hour_posts, posted_this_hour, jobs, passes,
                   handlers, events, steps>>

\* /forcar_post <link>: the link names p1 or p2, or no product at all
ForcePostCommand ==
    /\ steps < MaxPublishes
    /\ \E user \in Users, found \in BOOLEAN, id \in Ids, sent \in BOOLEAN,
          db \in BOOLEAN :
          /\ IF is_admin(user) /\ found
             THEN post_product(id, sent, db)
             ELSE UNCHANGED <<events, storeVars>>
          /\ obs' = Message("forcar_post", user, << >>, id)
    /\ steps' = steps + 1
    /\ UNCHANGED <<now, is_active, POST_MIN_PER_HOUR, POST_MAX_PER_HOUR,
                   hourly_target, current_hour_posts, posted_this_hour, jobs,
                   passes, handlers>>

\* a button is pressed
HandleCallback ==
    /\ steps < MaxPublishes
    /\ \E user \in Users, sent \in BOOLEAN, db \in BOOLEAN,
          data \in {"toggle_status", "show_config", "post_first_p1"} :
          /\ is_active' = IF is_admin(user) /\ data = "toggle_status"
                          THEN ~is_active ELSE is_active
          /\ IF is_admin(user) /\ data = "post_first_p1"
             THEN post_product("p1", sent, db)
             ELSE UNCHANGED <<events, storeVars>>
          /\ obs' = Message("callback", user, << >>, data)
    /\ steps' = steps + 1
    /\ UNCHANGED <<now, POST_MIN_PER_HOUR, POST_MAX_PER_HOUR, hourly_target,
                   current_hour_posts, posted_this_hour, jobs, passes,
                   handlers>>

\* PostingScheduler.adjust_schedule(new_min, new_max) is called
AdjustCall ==
    /\ \E a \in {<<20, 25>>, <<1, 1>>, <<0, 51>>, <<5, 1>>,
                  <<0 - 1, 0 - 1>>} :
          /\ adjust_schedule(a[1], a[2])
          /\ obs' = [op |-> "adjust_schedule_call", new_min |-> a[1],
                     new_max |-> a[2], before |-> AdminSnapshot]
    /\ UNCHANGED <<now, storeVars, is_active, handlers, events, steps>>

\* the messages the bot receives and the calls of adjust_schedule
SpecAdmin ==
    InitTarget /\ [][\/ PauseCommand \/ ResumeCommand \/ FrequencyMessage
                     \/ ForcePostCommand \/ HandleCallback
                     \/ AdjustCall]_vars

\* C37: from valid bounds, after any sequence of /frequencia messages and
\* adjust_schedule calls, 1 <= POST_MIN_PER_HOUR <= POST_MAX_PER_HOUR <= 50;
\* a request outside these limits, or one whose words are no integers,
\* leaves both bounds as they were.
C37_BoundsStayValid ==
    /\ 1 <= POST_MIN_PER_HOUR
    /\ POST_MIN_PER_HOUR <= POST_MAX_PER_HOUR
    /\ POST_MAX_PER_HOUR <= 50
    /\ (/\ obs.op = "adjust_schedule_call"
        /\ (\/ obs.new_min < 1 \/ obs.new_max < obs.new_min
            \/ obs.new_max > 50))
          => (/\ POST_MIN_PER_HOUR = obs.before.POST_MIN_PER_HOUR
              /\ POST_MAX_PER_HOUR = obs.before.POST_MAX_PER_HOUR)
    /\ (/\ obs.op = "message" /\ obs.handler = "frequencia"
        /\ (\/ Len(obs.text) # 2
            \/ \E i \in 1..Len(obs.text) : ~obs.text[i].int
            \/ obs.text[1].val < 1 \/ obs.text[2].val < obs.text[1].val
            \/ obs.text[2].val > 50))
          => (/\ POST_MIN_PER_HOUR = obs.before.POST_MIN_PER_HOUR
              /\ POST_MAX_PER_HOUR = obs.before.POST_MAX_PER_HOUR)

\* C38: a command or a button callback of a user other than the
\* administrator leaves the pause flag, the bounds, the channel, the store
\* and the scheduler's cycle as they were.
C38_OthersChangeNothing ==
    (obs.op = "message" /\ obs.user # "admin") => AdminSnapshot = obs.before

\* a user other than the administrator presses the pause button while the
\* bot is active, and the bot stays active
C38_Witness ==
    /\ obs.op = "message" /\ obs.user = "other"
    /\ obs.handler = "callback" /\ obs.data = "toggle_status"
    /\ obs.before.is_active /\ is_active

\* C39: when the hot-products request fails or returns no product, every
\* product of the pool _fetch_products_for_hour returns was returned by one
\* of the category searches that answered.
C39_PoolHoldsOnlyMarketProducts ==
    (/\ obs.op = "fetch_from_market"
     /\ (obs.market.raised \/ obs.market.products = << >>))
       => \A k \in 1..Len(obs.result) :
             \E c \in 1..3 :
                /\ ~obs.categories[c].raised
                /\ \E n \in 1..Len(obs.categories[c].products) :
                      obs.categories[c].products[n] = obs.result[k]

====
